---- MODULE Spec2Model ----
(***************************************************************************)
(* InterviewIQ backend: the provider gateway (call_ai), the per-answer     *)
(* evaluator (analyze_response, submit_response), the metrics normalizer   *)
(* (validate_and_normalize_metrics) and the report aggregator              *)
(* (generate_final_report, get_result).                                    *)
(*                                                                         *)
(* The specifications of the module:                                       *)
(*   Spec         one call of call_ai, with its two-task race              *)
(*   SpecEval     submit_response / get_result over a small database       *)
(*   SpecNorm     validate_and_normalize_metrics as a function of its input*)
(*   SpecAnalyze  analyze_response under every backend configuration       *)
(*   SpecReports  two concurrent get_result requests on one session        *)
(*   SpecScores   report scores over answer records with extreme values    *)
(*   SpecStar     detect_star_method as a function of its input            *)
(*   SpecQuality  calculate_content_quality as a function of its input     *)
(*   SpecDelete   delete_session among submit_response and get_result      *)
(*   SpecPercentile  calculate_percentile as a function of its input       *)
(*   SpecPace     the pace computed from word count and duration           *)
(*   SpecFlow     submitted voice metrics, from the request to the report  *)
(*   SpecProv     one Gemini or OpenRouter call with its two credentials   *)
(*   SpecStart    two start_interview requests on one session              *)
(***************************************************************************)
EXTENDS Integers, Sequences, FiniteSets, TLC

VARIABLES
    \* ---- call_ai (backend/core/services/ai_service.py) ----
    cfg,          \* the backends whose HAS_* flag is true
    pc,           \* position of call_ai
    ret,          \* what call_ai returned (valid once a return was executed)
    calls,        \* history: the backends invoked, in invocation order
    task,         \* race futures: "absent" | "running" | "finished"
    taskRes,      \* result of a finished race future (a value, or EXC)
    finishOrder,  \* history: race futures in the order they completed
    preFinished,  \* history: futures already finished when as_completed began
    yieldq,       \* futures as_completed has still to yield, head first
    yieldLog,     \* history: futures in the order as_completed yielded them
    elapsed,      \* time units since as_completed was called
    winner,       \* the race future whose result was returned, or NoTask
    caught,       \* history: the stages whose except clause has run
    mi,           \* index in the free_models list of the OpenAI/Perplexity loop
    \* ---- the interview database and its request handlers ----
    impl,         \* the services module in use: "package" (core/services/)
                  \* or "module" (core/services.py)
    sessions,     \* InterviewSession rows: status, overall_score, feedback_report
    questions,    \* Question rows: session, text, category (and order)
    responses,    \* InterviewResponse rows, in creation order
    last,         \* the last request handled and the response it got
    \* ---- a service function called on its own ----
    fnIn,         \* its arguments
    fnOut,        \* <<outcome>> once it was called, <<>> before
    \* ---- requests running concurrently ----
    req,          \* per request: its position and the rows it holds
    \* ---- one provider call with its credentials ----
    prov          \* the call's position, its attempts so far, its result

aiVars == <<cfg, pc, ret, calls, task, taskRes, finishOrder, preFinished,
            yieldq, yieldLog, elapsed, winner, caught, mi>>

evVars == <<impl, sessions, questions, responses, last>>

fnVars == <<fnIn, fnOut>>

rqVars == <<req>>

pvVars == <<prov>>

nonAiVars == <<evVars, fnVars, rqVars, pvVars>>

vars == <<aiVars, evVars, fnVars, rqVars, pvVars>>

----------------------------------------------------------------------------
(* Values                                                                  *)

None == "None"          \* Python None
Empty == ""             \* the empty string
EXC == "EXC"            \* a raised exception instead of a value
Unset == "-"            \* no value yet
NoTask == "none"

Backends == {"Groq", "Cerebras", "Gemini", "OpenRouter", "Bytez", "OpenAI",
             "Perplexity"}
RaceProviders == {"Gemini", "OpenRouter"}

TextOf(b) == "text:" \o b
Texts == {TextOf(b) : b \in Backends}

\* Python truthiness of a returned value (`if result:`, `elif output:`)
Truthy(v) == v \notin {None, Empty}

\* as_completed(..., timeout=15)
RACE_TIMEOUT == 15
\* len(free_models) of the OpenAI and of the Perplexity fallback
OPENAI_MODELS == 2
PERPLEXITY_MODELS == 3

\* The module-level availability flags HAS_GROQ ... HAS_PERPLEXITY
HAS(b) == b \in cfg

----------------------------------------------------------------------------
(* Outcomes of one backend call                                            *)

\* chat.completions.create(...) then response.choices[0].message.content:
\* a text, an empty or null content, or an exception (network error, rate
\* limit, auth failure, malformed response without choices)
ChatOutcomes(b) == {TextOf(b), Empty, None, EXC}

\* model.run(...) of Bytez returns (output, error)
BytezOutcomes == {<<TextOf("Bytez"), None>>, <<Empty, None>>,
                  <<None, "error">>, <<EXC, EXC>>}

\* What a race wrapper hands to its future
WrapperOutcomes(t) ==
    IF t = "Gemini" THEN {TextOf(t), Empty, None, EXC}
                    ELSE {TextOf(t), None}

----------------------------------------------------------------------------
(* Numbers: Python floats and ints as exact rationals <<n, d>>, d > 0.      *)
(* Rounding errors of binary floating point are not modelled.              *)

RECURSIVE GCD(_, _)
GCD(a, b) == IF b = 0 THEN a ELSE GCD(b, a % b)

Abs(n) == IF n < 0 THEN -n ELSE n

Norm(r) ==
    LET g == GCD(Abs(r[1]), r[2])
    IN IF g = 0 THEN <<0, 1>> ELSE <<r[1] \div g, r[2] \div g>>

R(n, d) == Norm(<<n, d>>)
RAdd(a, b) == Norm(<<a[1] * b[2] + b[1] * a[2], a[2] * b[2]>>)
RSub(a, b) == Norm(<<a[1] * b[2] - b[1] * a[2], a[2] * b[2]>>)
RMul(a, b) == Norm(<<a[1] * b[1], a[2] * b[2]>>)
\* a / b for b # 0
RDiv(a, b) ==
    IF b[1] > 0 THEN Norm(<<a[1] * b[2], a[2] * b[1]>>)
                ELSE Norm(<<-(a[1] * b[2]), -(a[2] * b[1])>>)
RLe(a, b) == a[1] * b[2] <= b[1] * a[2]
RMin(a, b) == IF RLe(a, b) THEN a ELSE b
RMax(a, b) == IF RLe(a, b) THEN b ELSE a
RAbs(a) == <<Abs(a[1]), a[2]>>
\* int(x): truncation toward zero
RInt(a) == IF a[1] >= 0 THEN a[1] \div a[2] ELSE -((-a[1]) \div a[2])

----------------------------------------------------------------------------
(* Python values, tagged with their type                                   *)

PyNone == [t |-> "none"]
PyNum(n, d) == [t |-> "num", n |-> R(n, d)]
PyInt(n) == PyNum(n, 1)
PyStr(str) == [t |-> "str", s |-> str]
PyList(n) == [t |-> "list", len |-> n]    \* a list of n items
PyDict(f) == [t |-> "dict", d |-> f]      \* f maps the keys to values
EmptyDict == [k \in {} |-> PyNone]

IsDict(x) == x.t = "dict"
IsNum(x) == x.t = "num"

\* bool(x)
PyTruthy(x) ==
    CASE x.t = "none" -> FALSE
      [] x.t = "num" -> x.n[1] # 0
      [] x.t = "str" -> x.s # ""
      [] x.t = "list" -> x.len > 0
      [] x.t = "dict" -> DOMAIN x.d # {}

\* d.get(k, default), d[k] = v and d.setdefault(k, v) on the mapping of a dict
Get(f, k, default) == IF k \in DOMAIN f THEN f[k] ELSE default
Put(f, k, v) == (k :> v) @@ f
SetDefault(f, k, v) == IF k \in DOMAIN f THEN f ELSE Put(f, k, v)

----------------------------------------------------------------------------
(* Python strings                                                          *)

Char(str, i) == SubSeq(str, i, i)
IsSpace(c) == c \in {" ", "\t", "\n"}
UPPER == "ABCDEFGHIJKLMNOPQRSTUVWXYZ"
LOWER == "abcdefghijklmnopqrstuvwxyz"
IsUpper(c) == \E i \in 1..Len(UPPER) : Char(UPPER, i) = c
IsLower(c) == \E i \in 1..Len(LOWER) : Char(LOWER, i) = c
IsDigit(c) == c \in {"0", "1", "2", "3", "4", "5", "6", "7", "8", "9"}
LowerChar(c) ==
    IF IsUpper(c)
    THEN Char(LOWER, CHOOSE i \in 1..Len(UPPER) : Char(UPPER, i) = c)
    ELSE c

\* A conversion that leaves capitals as they are
LowerKeepCase(str) == str

\* str.lower()
RECURSIVE Lower(_)
Lower(str) ==
    IF Len(str) = 0 THEN ""
    ELSE IF Len(str) = 1 THEN LowerChar(str)
    ELSE LET h == Len(str) \div 2
         IN Lower(SubSeq(str, 1, h)) \o Lower(SubSeq(str, h + 1, Len(str)))

\* str.strip()
RECURSIVE LStrip(_)
LStrip(str) ==
    IF str # "" /\ IsSpace(Char(str, 1)) THEN LStrip(SubSeq(str, 2, Len(str)))
    ELSE str
RECURSIVE RStrip(_)
RStrip(str) ==
    IF str # "" /\ IsSpace(Char(str, Len(str)))
    THEN RStrip(SubSeq(str, 1, Len(str) - 1))
    ELSE str
Strip(str) == RStrip(LStrip(str))

\* sub in str
Contains(str, sub) ==
    \E i \in 1..(Len(str) - Len(sub) + 1) : SubSeq(str, i, i + Len(sub) - 1) = sub

\* str.split(): the whitespace-separated words, as a sequence
WordStarts(str) ==
    {i \in 1..Len(str) :
       ~IsSpace(Char(str, i)) /\ (i = 1 \/ IsSpace(Char(str, i - 1)))}
WordEnd(str, i) ==
    CHOOSE j \in i..Len(str) :
       /\ \A k \in i..j : ~IsSpace(Char(str, k))
       /\ (j = Len(str) \/ IsSpace(Char(str, j + 1)))
Split(str) ==
    LET starts == WordStarts(str)
        nth(k) == CHOOSE i \in starts : Cardinality({j \in starts : j <= i}) = k
    IN [k \in 1..Cardinality(starts) |-> SubSeq(str, nth(k), WordEnd(str, nth(k)))]

Range(q) == {q[i] : i \in DOMAIN q}

----------------------------------------------------------------------------
(* The texts of the model                                                  *)

\* The two service implementations of the repository: the package
\* core/services/ and the module core/services.py
Impls == {"package", "module"}

\* The transcript submit_response substitutes for a skipped question
SKIP_SENTINEL == "[Question skipped - no answer provided]"

\* Answers
T_EMPTY == ""
T_THREE == "one two  three"
T_PLAIN == "I would put a queue in front of it"
T_STAR == "In my role at Acme Corp I had to cut latency so I implemented caching for example in 2020 which improved it"
\* Answers around the five-character limit of calculate_content_quality, and
\* an answer of more than 80 words
T_SPACES == "     "
T_PADDED == "  hi   "
T_FOUR == "abcd"
T_FIVE == " abcde"
T_LONG == T_STAR \o " and so on and so on and so on and so on and so on and so on and so on and so on and so on and so on and so on and so on and so on and so on and so on and so on and so on and so on and so on and so on"
AnswerTexts ==
    {T_EMPTY, T_THREE, T_PLAIN, T_STAR, SKIP_SENTINEL,
     T_SPACES, T_PADDED, T_FOUR, T_FIVE, T_LONG}

\* Questions
Q1_TEXT == "Describe the caching you implemented"
Q2_TEXT == "Tell me about a conflict in your team"
\* A question whose every word the long answer has, one of common words
\* only, and an empty one
Q3_TEXT == "The caching implemented"
Q4_TEXT == "is the a of"
Q5_TEXT == ""
QuestionTexts == {Q1_TEXT, Q2_TEXT, Q3_TEXT, Q4_TEXT, Q5_TEXT}

\* len(transcript.split()) of each answer, evaluated once
WordCounts == [t \in AnswerTexts |-> Len(Split(t))]

----------------------------------------------------------------------------
(* call_ai                                                                 *)

\* Every backend attempt of call_ai sits in a try whose `except Exception`
\* logs and goes on; the race loop has one around future.result() and one
\* (concurrent.futures.TimeoutError) around the as_completed loop.
CatchesNotBytez(stage) == stage # "Bytez"
Catches(stage) ==
    stage \in {"Groq", "Cerebras", "RaceResult", "RaceTimeout", "Bytez",
               "OpenAI", "Perplexity"}

\* The order in which call_ai reaches its stages; "end" is the final
\* `return None`.
StageOrderBytezEarly ==
    <<"groq", "bytez", "cerebras", "race_submit", "openai", "perplexity", "end">>
StageOrder ==
    <<"groq", "cerebras", "race_submit", "bytez", "openai", "perplexity", "end">>

\* The stage control falls through to when stage p ends without a return
After(p) ==
    LET i == CHOOSE k \in 1..Len(StageOrder) : StageOrder[k] = p
    IN StageOrder[i + 1]

\* The futures the race submits to the executor
SubmittedAll == RaceProviders
Submitted == {t \in RaceProviders : HAS(t)}

\* `with ThreadPoolExecutor(...) as executor:` leaves the block through
\* __exit__, which calls shutdown(wait=True) and joins the worker threads,
\* also after the executor.shutdown(wait=False) before `return result`.
ExecutorExitNoWait == FALSE
ExecutorExitWaits == TRUE

\* as_completed hands over the futures that complete while it waits in
\* completion order
EnqueueFront(q, t) == <<t>> \o q
Enqueue(q, t) == Append(q, t)

Perms(S) ==
    {q \in [1..Cardinality(S) -> S] : \A i, j \in DOMAIN q : i # j => q[i] # q[j]}

Running == {t \in RaceProviders : task[t] = "running"}

\* call_ai is entered
StartAI ==
    /\ pc = "groq"
    /\ ret = Unset
    /\ calls = <<>>
    /\ task = [t \in RaceProviders |-> "absent"]
    /\ taskRes = [t \in RaceProviders |-> Unset]
    /\ finishOrder = <<>>
    /\ preFinished = {}
    /\ yieldq = <<>>
    /\ yieldLog = <<>>
    /\ elapsed = 0
    /\ winner = NoTask
    /\ caught = {}
    /\ mi = 1

InitAI ==
    /\ cfg \in SUBSET Backends
    /\ StartAI

\* A stage that makes one chat-completion call and returns its content
ChatStage(label, b) ==
    /\ pc = label
    /\ IF HAS(b)
       THEN \E out \in ChatOutcomes(b) :
              /\ calls' = Append(calls, b)
              /\ IF out = EXC
                 THEN /\ pc' = IF Catches(b) THEN After(label) ELSE "raised"
                      /\ caught' = IF Catches(b) THEN caught \cup {b} ELSE caught
                      /\ ret' = ret
                 ELSE /\ pc' = "done"
                      /\ ret' = out
                      /\ caught' = caught
       ELSE /\ pc' = After(label)
            /\ UNCHANGED <<calls, ret, caught>>
    /\ UNCHANGED <<cfg, task, taskRes, finishOrder, preFinished, yieldq,
                   yieldLog, elapsed, winner, mi>>
    /\ UNCHANGED nonAiVars

Groq == ChatStage("groq", "Groq")

Cerebras == ChatStage("cerebras", "Cerebras")

\* executor.submit(...) for each configured race provider
RaceSubmit ==
    /\ pc = "race_submit"
    /\ task' = [t \in RaceProviders |->
                  IF t \in Submitted THEN "running" ELSE "absent"]
    /\ calls' = calls
                \o (IF "Gemini" \in Submitted THEN <<"Gemini">> ELSE <<>>)
                \o (IF "OpenRouter" \in Submitted THEN <<"OpenRouter">> ELSE <<>>)
    /\ pc' = "race_started"
    /\ UNCHANGED <<cfg, ret, taskRes, finishOrder, preFinished, yieldq,
                   yieldLog, elapsed, winner, mi, caught>>
    /\ UNCHANGED nonAiVars

\* A worker thread ends its wrapper: the future completes
TaskFinish(t) ==
    /\ task[t] = "running"
    /\ \E out \in WrapperOutcomes(t) :
         taskRes' = [taskRes EXCEPT ![t] = out]
    /\ task' = [task EXCEPT ![t] = "finished"]
    /\ finishOrder' = Append(finishOrder, t)
    /\ yieldq' = IF pc = "race_wait" THEN Enqueue(yieldq, t) ELSE yieldq
    /\ UNCHANGED <<cfg, pc, ret, calls, preFinished, yieldLog, elapsed,
                   winner, mi, caught>>
    /\ UNCHANGED nonAiVars

\* as_completed(future_to_provider, timeout=15) is called: the futures
\* already finished are yielded first, in the iteration order of a set
AsCompleted ==
    /\ pc = "race_started"
    /\ preFinished' = {t \in RaceProviders : task[t] = "finished"}
    /\ yieldq' \in Perms(preFinished')
    /\ elapsed' = 0
    /\ pc' = "race_wait"
    /\ UNCHANGED <<cfg, ret, calls, task, taskRes, finishOrder, yieldLog,
                   winner, mi, caught>>
    /\ UNCHANGED nonAiVars

\* One iteration of `for future in as_completed(...)`
RaceNext ==
    /\ pc = "race_wait"
    /\ yieldq # <<>>
    /\ LET f == Head(yieldq)
           r == taskRes[f]
       IN /\ yieldq' = Tail(yieldq)
          /\ yieldLog' = Append(yieldLog, f)
          /\ IF r = EXC
             THEN /\ pc' = IF Catches("RaceResult") THEN "race_wait" ELSE "raised"
                  /\ caught' = IF Catches("RaceResult")
                                THEN caught \cup {"RaceResult"} ELSE caught
                  /\ UNCHANGED <<ret, winner>>
             ELSE IF Truthy(r)
                  THEN /\ ret' = r
                       /\ winner' = f
                       /\ pc' = "race_exit"
                       /\ caught' = caught
                  ELSE UNCHANGED <<pc, ret, winner, caught>>
    /\ UNCHANGED <<cfg, calls, task, taskRes, finishOrder, preFinished,
                   elapsed, mi>>
    /\ UNCHANGED nonAiVars

\* Every submitted future was yielded: the for loop ends
RaceExhausted ==
    /\ pc = "race_wait"
    /\ yieldq = <<>>
    /\ Running = {}
    /\ pc' = "race_exit"
    /\ UNCHANGED <<cfg, ret, calls, task, taskRes, finishOrder, preFinished,
                   yieldq, yieldLog, elapsed, winner, mi, caught>>
    /\ UNCHANGED nonAiVars

\* as_completed raises TimeoutError, caught by the race's except clause
RaceTimeout ==
    /\ pc = "race_wait"
    /\ yieldq = <<>>
    /\ Running # {}
    /\ elapsed = RACE_TIMEOUT
    /\ pc' = IF Catches("RaceTimeout") THEN "race_exit" ELSE "raised"
    /\ caught' = IF Catches("RaceTimeout") THEN caught \cup {"RaceTimeout"} ELSE caught
    /\ UNCHANGED <<cfg, ret, calls, task, taskRes, finishOrder, preFinished,
                   yieldq, yieldLog, elapsed, winner, mi>>
    /\ UNCHANGED nonAiVars

\* A time unit passes while call_ai is blocked in the race: waiting in
\* as_completed for a future, or joining the workers on leaving the with
\* block. elapsed stops at RACE_TIMEOUT + 1, which stands for any time past
\* the timeout.
Tick ==
    /\ Running # {}
    /\ \/ pc = "race_wait" /\ yieldq = <<>> /\ elapsed < RACE_TIMEOUT
       \/ pc = "race_exit" /\ ExecutorExitWaits /\ elapsed <= RACE_TIMEOUT
    /\ elapsed' = elapsed + 1
    /\ UNCHANGED <<cfg, pc, ret, calls, task, taskRes, finishOrder,
                   preFinished, yieldq, yieldLog, winner, mi, caught>>
    /\ UNCHANGED nonAiVars

\* The with block is left: by `return result`, or by falling out of it
RaceExit ==
    /\ pc = "race_exit"
    /\ ExecutorExitWaits => Running = {}
    /\ pc' = IF winner # NoTask THEN "done" ELSE After("race_submit")
    /\ UNCHANGED <<cfg, ret, calls, task, taskRes, finishOrder, preFinished,
                   yieldq, yieldLog, elapsed, winner, mi, caught>>
    /\ UNCHANGED nonAiVars

\* Fallback 1: Bytez
Bytez ==
    /\ pc = "bytez"
    /\ IF HAS("Bytez")
       THEN \E oe \in BytezOutcomes :
              /\ calls' = Append(calls, "Bytez")
              /\ IF oe[1] = EXC
                 THEN /\ pc' = IF Catches("Bytez") THEN After("bytez") ELSE "raised"
                      /\ caught' = IF Catches("Bytez")
                                    THEN caught \cup {"Bytez"} ELSE caught
                      /\ ret' = ret
                 ELSE /\ caught' = caught
                      /\ IF oe[2] # None
                         THEN pc' = After("bytez") /\ ret' = ret
                         ELSE IF Truthy(oe[1])
                              THEN pc' = "done" /\ ret' = oe[1]
                              ELSE pc' = After("bytez") /\ ret' = ret
       ELSE /\ pc' = After("bytez")
            /\ UNCHANGED <<calls, ret, caught>>
    /\ UNCHANGED <<cfg, task, taskRes, finishOrder, preFinished, yieldq,
                   yieldLog, elapsed, winner, mi>>
    /\ UNCHANGED nonAiVars

\* `for model in free_models:` with one chat-completion call per model
ModelLoop(label, b, n) ==
    /\ pc = label
    /\ IF HAS(b) /\ mi <= n
       THEN \E out \in ChatOutcomes(b) :
              /\ calls' = Append(calls, b)
              /\ IF out = EXC
                 THEN IF Catches(b)
                      THEN /\ pc' = pc /\ mi' = mi + 1 /\ ret' = ret
                           /\ caught' = caught \cup {b}
                      ELSE /\ pc' = "raised" /\ mi' = mi /\ ret' = ret
                           /\ caught' = caught
                 ELSE pc' = "done" /\ ret' = out /\ mi' = mi /\ caught' = caught
       ELSE /\ pc' = After(label)
            /\ mi' = 1
            /\ UNCHANGED <<calls, ret, caught>>
    /\ UNCHANGED <<cfg, task, taskRes, finishOrder, preFinished, yieldq,
                   yieldLog, elapsed, winner>>
    /\ UNCHANGED nonAiVars

OpenAI == ModelLoop("openai", "OpenAI", OPENAI_MODELS)

Perplexity == ModelLoop("perplexity", "Perplexity", PERPLEXITY_MODELS)

\* The last line of call_ai
ReturnNone ==
    /\ pc = "end"
    /\ ret' = None
    /\ pc' = "done"
    /\ UNCHANGED <<cfg, calls, task, taskRes, finishOrder, preFinished,
                   yieldq, yieldLog, elapsed, winner, mi, caught>>
    /\ UNCHANGED nonAiVars

\* No request is handled and the normalizer is not called
EmptyDb ==
    /\ sessions = <<>>
    /\ questions = <<>>
    /\ responses = <<>>
    /\ last = [op |-> "none"]

IdleEval == impl = "package" /\ EmptyDb

IdleFn ==
    /\ fnIn = <<>>
    /\ fnOut = <<>>

IdleReq == req = <<>>

IdleProv == prov = <<>>

Init == InitAI /\ IdleEval /\ IdleFn /\ IdleReq /\ IdleProv

Next ==
    \/ Groq
    \/ Cerebras
    \/ RaceSubmit
    \/ \E t \in RaceProviders : TaskFinish(t)
    \/ AsCompleted
    \/ RaceNext
    \/ RaceExhausted
    \/ RaceTimeout
    \/ Tick
    \/ RaceExit
    \/ Bytez
    \/ OpenAI
    \/ Perplexity
    \/ ReturnNone

Spec == Init /\ [][Next]_vars

----------------------------------------------------------------------------
(* Properties of call_ai                                                   *)

ReturnValues == Texts \cup {Empty, None}

\* The stage a backend belongs to, in the order the gateway documents
Rank(b) ==
    CASE b = "Groq" -> 1
      [] b = "Cerebras" -> 2
      [] b \in RaceProviders -> 3
      [] b = "Bytez" -> 4
      [] b = "OpenAI" -> 5
      [] b = "Perplexity" -> 6

\* Position of future t in the completion order (0 when not completed)
FinishPos(t) ==
    IF \E i \in DOMAIN finishOrder : finishOrder[i] = t
    THEN CHOOSE i \in DOMAIN finishOrder : finishOrder[i] = t
    ELSE 0

\* C1: call_ai never raises to its caller: whatever backends are configured
\* and whatever each backend call does (text, exception, empty or null
\* content, race timeout), no exception leaves call_ai, call_ai can always
\* take its next step until it has returned, and what it returns is a text
\* or None.
C1_NeverRaises ==
    /\ pc # "raised"
    /\ pc = "done" => ret \in ReturnValues
    /\ pc # "done" => ENABLED Next

\* C1 witness: call_ai returned None after an exception in Groq, an exception
\* of a race future, a race timeout and an exception in Perplexity
C1_Witness ==
    /\ pc = "done"
    /\ ret = None
    /\ {"Groq", "RaceResult", "RaceTimeout", "Perplexity"} \subseteq caught

\* C2: when a race backend completes at once with a usable result, call_ai
\* returns that result without waiting for the unfinished backend: having
\* taken the result of a future that was finished when the wait began, call_ai
\* is not still inside the race past the timeout.
C2_ReturnsWithoutWaiting ==
    (winner # NoTask /\ winner \in preFinished)
        => (pc = "done" \/ elapsed <= RACE_TIMEOUT)

\* C8: the stages are attempted in the order Groq, Cerebras, the
\* Gemini/OpenRouter race, Bytez, OpenAI, Perplexity; unconfigured backends
\* are skipped; a stage is started only when every earlier stage has ended
\* without a result (no return executed, no race future still running); and
\* once a stage produced a result no later backend is invoked and call_ai
\* returns that result.
C8_FixedOrder ==
    /\ \A i, j \in DOMAIN calls : i < j => Rank(calls[i]) <= Rank(calls[j])
    /\ \A i \in DOMAIN calls : calls[i] \in cfg
    /\ \A b \in Backends :
         (pc \in {"cerebras", "race_submit", "bytez", "openai", "perplexity", "end"}
            /\ b \in cfg /\ Rank(b) < Rank(IF pc = "cerebras" THEN "Cerebras"
                                           ELSE IF pc = "race_submit" THEN "Gemini"
                                           ELSE IF pc = "bytez" THEN "Bytez"
                                           ELSE IF pc = "openai" THEN "OpenAI"
                                           ELSE "Perplexity"))
           => \E i \in DOMAIN calls : calls[i] = b
    /\ (\E i \in DOMAIN calls : Rank(calls[i]) > 3) => Running = {}
    /\ pc \notin {"done", "race_exit", "raised"} => ret = Unset
    /\ \A b \in Backends :
         ret = TextOf(b) =>
            /\ pc \in {"done", "race_exit"}
            /\ calls # <<>>
            /\ Rank(calls[Len(calls)]) = Rank(b)

\* C8 witness: every stage up to OpenAI was tried in turn and OpenAI's text
\* was returned
C8_Witness ==
    /\ pc = "done"
    /\ calls = <<"Groq", "Cerebras", "Gemini", "OpenRouter", "Bytez", "OpenAI">>
    /\ ret = TextOf("OpenAI")

\* C9: with no backend configured call_ai returns None, having invoked no
\* backend, started no race task and spent no time waiting in the race.
C9_NoBackend ==
    cfg = {} =>
        /\ calls = <<>>
        /\ \A t \in RaceProviders : task[t] = "absent"
        /\ elapsed = 0
        /\ pc # "raised"
        /\ pc = "done" => ret = None
        /\ pc # "done" => ENABLED Next

\* C9 witness: call_ai returned with no backend configured
C9_Witness == cfg = {} /\ pc = "done"

----------------------------------------------------------------------------
(* validate_and_normalize_metrics                                          *)
(* The outcome of a function is [ok |-> TRUE, v |-> value], or             *)
(* [ok |-> FALSE, exc |-> the exception it raised].                        *)

Returns(v) == [ok |-> TRUE, v |-> v]
Raises(e) == [ok |-> FALSE, exc |-> e]

PyRat(r) == [t |-> "num", n |-> r]

\* `if not voice.get('word_count'): voice['word_count'] = len(transcript.split())`
NormalizeWordCount(voice, user_transcript) ==
    IF PyTruthy(Get(voice, "word_count", PyNone))
    THEN voice
    ELSE Put(voice, "word_count", PyInt(WordCounts[user_transcript]))

\* int((voice['word_count'] / duration) * 60), reached with duration > 0
ComputedWpm(voice) ==
    LET duration == voice["speaking_duration_seconds"]
        word_count == voice["word_count"]
    IN IF ~IsNum(word_count)
       THEN Raises("TypeError")
       ELSE Returns(Put(voice, "words_per_minute",
                PyInt(RInt(RMul(RDiv(word_count.n, duration.n), R(60, 1))))))

\* The branch taken when speaking_duration_seconds is present and truthy
NormalizeWithDuration(voice) ==
    LET duration == voice["speaking_duration_seconds"]
    IN IF PyTruthy(Get(voice, "words_per_minute", PyNone))
       THEN Returns(voice)
       ELSE IF ~IsNum(duration)
            THEN Raises("TypeError")          \* `duration > 0`
            ELSE IF duration.n[1] > 0 THEN ComputedWpm(voice)
                                      ELSE Returns(voice)

\* voice['word_count'] / 2
HalfWordCount(voice) == PyRat(RDiv(voice["word_count"].n, R(2, 1)))

\* The else branch of core/services/helper_functions.py
EstimateDurationPackage(voice) ==
    IF ~IsNum(voice["word_count"])
    THEN Raises("TypeError")
    ELSE Returns(Put(SetDefault(voice, "words_per_minute", PyInt(120)),
                     "speaking_duration_seconds", HalfWordCount(voice)))

\* The else branch of core/services.py
EstimateDurationModule(voice) ==
    IF PyTruthy(Get(voice, "words_per_minute", PyNone))
    THEN Returns(voice)
    ELSE IF ~IsNum(voice["word_count"])
         THEN Raises("TypeError")
         ELSE Returns(Put(Put(voice, "words_per_minute", PyInt(120)),
                          "speaking_duration_seconds", HalfWordCount(voice)))

NormalizePace(im, voice) ==
    IF PyTruthy(Get(voice, "speaking_duration_seconds", PyNone))
    THEN NormalizeWithDuration(voice)
    ELSE IF im = "package" THEN EstimateDurationPackage(voice)
                           ELSE EstimateDurationModule(voice)

\* filler_words forced to a dict, then the two setdefault calls
NormalizeDefaults(voice) ==
    LET v1 == IF IsDict(Get(voice, "filler_words", PyNone))
              THEN voice
              ELSE Put(voice, "filler_words", PyDict(EmptyDict))
        v2 == SetDefault(v1, "pause_count", PyInt(0))
    IN SetDefault(v2, "average_volume", PyNum(1, 2))

\* validate_and_normalize_metrics(fluency_metrics, user_transcript)
validate_and_normalize_metrics(im, fluency_metrics, user_transcript) ==
    LET fm == IF ~PyTruthy(fluency_metrics) \/ ~IsDict(fluency_metrics)
              THEN EmptyDict
              ELSE fluency_metrics.d
        voice == Get(fm, "voiceMetrics", PyDict(EmptyDict))
    IN IF ~IsDict(voice)
       THEN Raises("AttributeError")          \* voice.get on a non-dict
       ELSE LET paced == NormalizePace(im,
                            NormalizeWordCount(voice.d, user_transcript))
            IN IF ~paced.ok
               THEN paced
               ELSE Returns(PyDict(Put(fm, "voiceMetrics",
                                       PyDict(NormalizeDefaults(paced.v)))))

Absent == [t |-> "absent"]
Opt(k, x) == IF x = Absent THEN EmptyDict ELSE k :> x

\* The voiceMetrics mappings a client can send: each field present or not
VoiceInputs ==
    {Opt("word_count", wc) @@ Opt("speaking_duration_seconds", d)
       @@ Opt("words_per_minute", w) @@ Opt("filler_words", fw) :
       wc \in {Absent, PyInt(0), PyInt(12)},
       d \in {Absent, PyInt(0), PyInt(-3), PyInt(6), PyStr("6")},
       w \in {Absent, PyInt(130)},
       fw \in {Absent, PyList(2)}}

\* The fluency_metrics values a caller can pass
RawMetrics ==
    {PyNone, PyList(0), PyList(2), PyStr("fast"), PyInt(5), PyDict(EmptyDict),
     PyDict("fluency_score" :> PyInt(1))}
    \cup {PyDict("voiceMetrics" :> x) : x \in {PyNone, PyList(0), PyStr("loud")}}
    \cup {PyDict("voiceMetrics" :> PyDict(v)) : v \in VoiceInputs}

IdleAI == cfg = {} /\ StartAI

InitNorm ==
    /\ IdleAI
    /\ EmptyDb
    /\ impl \in Impls
    /\ fnIn \in [fluency_metrics : RawMetrics,
                 user_transcript : {T_EMPTY, T_THREE, T_STAR}]
    /\ fnOut = <<>>
    /\ IdleReq /\ IdleProv

\* One call of validate_and_normalize_metrics
Normalize ==
    /\ fnOut = <<>>
    /\ fnOut' = <<validate_and_normalize_metrics(
                      impl, fnIn.fluency_metrics, fnIn.user_transcript)>>
    /\ UNCHANGED <<fnIn, aiVars, evVars, rqVars, pvVars>>

NextNorm == Normalize

SpecNorm == InitNorm /\ [][NextNorm]_vars

----------------------------------------------------------------------------
(* Properties of validate_and_normalize_metrics                            *)

VoiceFields == {"word_count", "words_per_minute", "speaking_duration_seconds",
                "filler_words", "pause_count", "average_volume"}

\* The call returned a mapping whose voiceMetrics has every field set
FullyPopulated(out) ==
    /\ out.ok
    /\ "voiceMetrics" \in DOMAIN out.v.d
    /\ IsDict(out.v.d["voiceMetrics"])
    /\ VoiceFields \subseteq DOMAIN out.v.d["voiceMetrics"].d

\* C7: validate_and_normalize_metrics is total: for every raw_metrics value
\* and every transcript the call returns without error a result whose
\* voiceMetrics has word_count, words_per_minute, speaking_duration_seconds,
\* filler_words, pause_count and average_volume all set.
C7_Total == fnOut # <<>> => FullyPopulated(fnOut[1])

----------------------------------------------------------------------------
(* Text heuristics: detect_star_method, calculate_content_quality          *)

\* any(cue in text for cue in cues)
AnyIn(cues, text) == \E cue \in cues : Contains(text, cue)

SituationCues(im) ==
    {"situation", "when i was", "at my previous", "in my role", "while working"}
    \cup (IF im = "module" THEN {"at that time", "back when", "during my time"}
                           ELSE {})
TaskCues(im) ==
    {"task", "needed to", "had to", "responsible for", "my goal was"}
    \cup (IF im = "module" THEN {"assignment was", "challenge was", "problem was"}
                           ELSE {})
ActionCues(im) ==
    {"i did", "i created", "i implemented", "i decided", "my approach",
     "i developed"}
    \cup (IF im = "module" THEN {"i built", "i designed", "i executed", "i led"}
                           ELSE {})
ResultCues(im) ==
    {"result", "outcome", "achieved", "improved", "increased", "successfully"}
    \cup (IF im = "module" THEN {"decreased", "completed", "delivered"} ELSE {})

B2I(b) == IF b THEN 1 ELSE 0

\* detect_star_method(transcript): <<used_star, star_score>>
detect_star_method(im, transcript) ==
    IF transcript = "" \/ Len(transcript) < 20
    THEN <<FALSE, 0>>
    ELSE LET transcript_lower == Lower(transcript)
             star_score == B2I(AnyIn(SituationCues(im), transcript_lower))
                           + B2I(AnyIn(TaskCues(im), transcript_lower))
                           + B2I(AnyIn(ActionCues(im), transcript_lower))
                           + B2I(AnyIn(ResultCues(im), transcript_lower))
         IN <<star_score >= 3, star_score>>

\* re.search(r'\d+', text)
HasNumber(text) == \E i \in 1..Len(text) : IsDigit(Char(text, i))

\* re.search(r'[A-Z][a-z]+(?:\s+[A-Z][a-z]+)+', text)
\* A capitalized word, whitespace, and the start of another capitalized word
HasProperNouns(text) ==
    \E i \in 1..(Len(text) - 4) :
       /\ IsUpper(Char(text, i))
       /\ IsLower(Char(text, i + 1))
       /\ \E j \in (i + 1)..(Len(text) - 3) :
             /\ IsSpace(Char(text, j + 1))
             /\ \A m \in (i + 2)..j : IsLower(Char(text, m))
             /\ \E k \in (j + 2)..(Len(text) - 1) :
                   /\ IsUpper(Char(text, k))
                   /\ IsLower(Char(text, k + 1))
                   /\ \A m \in (j + 2)..(k - 1) : IsSpace(Char(text, m))

ExamplePhrases(im) ==
    {"for example", "specifically", "such as"}
    \cup (IF im = "module"
          THEN {"for instance", "in particular", "one time", "once when"}
          ELSE {})

CommonWords(im) ==
    {"the", "a", "an", "is", "are", "was", "were", "be", "of", "in", "to",
     "for", "on", "at"}
    \cup (IF im = "module"
          THEN {"been", "being", "have", "has", "had", "do", "does", "did",
                "will", "would", "could", "should", "may", "might", "can"}
          ELSE {})

\* Length (0-30)
LengthPoints(word_count) ==
    IF word_count >= 80 THEN 30
    ELSE IF word_count >= 60 THEN 25
    ELSE IF word_count >= 40 THEN 20
    ELSE IF word_count >= 20 THEN 10
    ELSE 5

\* Specificity (0-25)
SpecificityPoints(im, answer_text) ==
    LET specificity ==
          (IF HasNumber(answer_text) THEN 8 ELSE 0)
          + (IF AnyIn(ExamplePhrases(im), Lower(answer_text)) THEN 10 ELSE 0)
          + (IF HasProperNouns(answer_text) THEN 7 ELSE 0)
    IN IF specificity < 25 THEN specificity ELSE 25

\* Structure (0-20)
StructurePoints(im, answer_text) ==
    LET star == detect_star_method(im, answer_text)
    IN IF star[1] THEN 20 ELSE IF star[2] >= 2 THEN 10 ELSE 0

\* set(text.lower().split()) for the questions and answers of the model,
\* evaluated once
LowerWords ==
    [t \in QuestionTexts \cup AnswerTexts |-> Range(Split(Lower(t)))]

\* Relevance (0-25), a float
RelevancePoints(im, question_text, answer_text) ==
    LET q_words == LowerWords[question_text] \ CommonWords(im)
        a_words == LowerWords[answer_text] \ CommonWords(im)
    IN IF q_words # {}
       THEN RMin(R(25, 1),
                 RMul(R(Cardinality(q_words \cap a_words), Cardinality(q_words)),
                      R(25, 1)))
       ELSE R(15, 1)

\* No answer counts as too short
TooShortNever == [t \in AnswerTexts |-> FALSE]

\* not answer_text or len(answer_text.strip()) < 5, evaluated once
TooShort == [t \in AnswerTexts |-> t = "" \/ Len(Strip(t)) < 5]

\* The integer part of the score (length, specificity, structure),
\* evaluated once
IntegerPoints ==
    [im \in Impls |->
        [t \in AnswerTexts |-> LengthPoints(WordCounts[t])
                                + SpecificityPoints(im, t)
                                + StructurePoints(im, t)]]

\* calculate_content_quality(question_text, answer_text): 0..100
calculate_content_quality(im, question_text, answer_text) ==
    IF TooShort[answer_text]
    THEN 0
    ELSE LET score == RAdd(R(IntegerPoints[im][answer_text], 1),
                           RelevancePoints(im, question_text, answer_text))
             points == RInt(score)
         IN IF points < 100 THEN points ELSE 100

\* detect_star_method on the answers of the model, evaluated once
StarMethod ==
    [im \in Impls |-> [t \in AnswerTexts |-> detect_star_method(im, t)]]

----------------------------------------------------------------------------
(* What call_ai hands to the evaluator and the aggregator                  *)

ChatBackends == {"Groq", "Cerebras", "OpenAI", "Perplexity"}

\* The values one call of call_ai can return under configuration c, in the
\* vocabulary of Spec: None always, the text of any configured backend, and
\* an empty content only from a chat-completion stage
CallAiReturns(c) ==
    {None} \cup {TextOf(b) : b \in c}
           \cup (IF c \cap ChatBackends # {} THEN {Empty} ELSE {})

\* Texts a backend can answer with
REPLY_PROSE == "Sorry, I cannot rate this answer."
\* The three-backquote code fence; a backquote cannot be written in a string
\* here, so the tilde stands for it
FENCE == "~~~"
REPLY_LIST == "~~~json\n[1]\n~~~"
REPLY_OBJECT == "~~~json\n{\"feedback_text\": \"Quote more.\", \"is_answer_correct\": false, \"star_method_used\": \"n/a\", \"content_quality_score\": -1, \"sentiment_score\": 1, \"overall_score\": 99, \"category_scores\": [], \"strengths\": [\"Clear\"]}\n~~~"
ReplyTexts == {REPLY_PROSE, REPLY_LIST, REPLY_OBJECT}

\* call_ai(prompt) as the evaluator sees it: TextOf(b) stands for any text
CallAiResults(c) ==
    (CallAiReturns(c) \cap {None, Empty})
    \cup (IF c # {} THEN ReplyTexts ELSE {})

\* str.replace(old, ''): every occurrence of old removed, left to right
RECURSIVE Remove(_, _)
Remove(str, old) ==
    IF Contains(str, old)
    THEN LET i == CHOOSE i \in 1..(Len(str) - Len(old) + 1) :
                    /\ SubSeq(str, i, i + Len(old) - 1) = old
                    /\ \A j \in 1..(i - 1) : SubSeq(str, j, j + Len(old) - 1) # old
         IN SubSeq(str, 1, i - 1)
            \o Remove(SubSeq(str, i + Len(old), Len(str)), old)
    ELSE str

\* ai_response.replace(FENCE + 'json', '').replace(FENCE, '').strip()
StripFences(ai_response) ==
    Strip(Remove(Remove(ai_response, FENCE \o "json"), FENCE))

\* The JSON text of REPLY_OBJECT and the object it denotes
JSON_OBJECT == StripFences(REPLY_OBJECT)
AI_OBJECT ==
    [feedback_text |-> "Quote more.", is_answer_correct |-> FALSE,
     star_method_used |-> "n/a", content_quality_score |-> -1,
     sentiment_score |-> 1, overall_score |-> 99, category_scores |-> <<>>,
     strengths |-> <<"Clear">>]

\* A parser that reads a critique out of any text
json_loadsAnything(json_str) == Returns(PyDict(AI_OBJECT))

\* json.loads on the texts that occur: a JSON object, a JSON array, or a
\* JSONDecodeError for anything else
json_loads(json_str) ==
    IF json_str = JSON_OBJECT THEN Returns(PyDict(AI_OBJECT))
    ELSE IF json_str = "[1]" THEN Returns(PyList(1))
    ELSE IF json_str = "[]" THEN Returns(PyList(0))
    ELSE IF json_str = "{}" THEN Returns(PyDict(EmptyDict))
    ELSE IF json_str = "null" THEN Returns(PyNone)
    ELSE Raises("JSONDecodeError")

\* ai_response.replace(...).strip() and json.loads of it for each reply
\* text, evaluated once
StrippedReply == [r \in ReplyTexts |-> StripFences(r)]
ParsedReply == [r \in ReplyTexts |-> json_loads(StrippedReply[r])]

----------------------------------------------------------------------------
(* analyze_response                                                        *)

\* `if HAS_GEMINI or HAS_OPENAI or HAS_PERPLEXITY or HAS_OPENROUTER:`
CritiqueGate(c) == c \cap {"Gemini", "OpenAI", "Perplexity", "OpenRouter"} # {}

FALLBACK_FEEDBACK_PACKAGE == "AI unavailable. Check metrics."
FALLBACK_FEEDBACK_MODULE == "AI service unavailable. Please check metrics."

\* q[:n]
Take(q, n) == SubSeq(q, 1, IF Len(q) < n THEN Len(q) ELSE n)

\* The record built from a parsed critique
ParsedAnalysis(im, ai_analysis, used_star, content_quality) ==
    [is_answer_correct |-> Get(ai_analysis, "is_answer_correct", TRUE),
     feedback_text |-> Get(ai_analysis, "feedback_text", ""),
     strengths |-> Take(Get(ai_analysis, "strengths", <<>>), 3),
     sentiment_score |-> IF im = "package" /\ used_star THEN R(7, 10)
                                                        ELSE R(1, 2),
     star_method_used |-> used_star,
     content_quality_score |-> content_quality]

\* The record returned when no critique was obtained
FallbackAnalysis(im, used_star, content_quality) ==
    IF im = "package"
    THEN [is_answer_correct |-> TRUE,
          feedback_text |-> FALLBACK_FEEDBACK_PACKAGE,
          strengths |-> <<"Clear audio">>,
          sentiment_score |-> R(1, 2),
          star_method_used |-> used_star,
          content_quality_score |-> content_quality]
    ELSE [is_answer_correct |-> TRUE,
          feedback_text |-> FALLBACK_FEEDBACK_MODULE,
          strengths |-> <<"Clear audio">>]

\* analyze_response once the metrics are normalized and the heuristics
\* computed
Analyzed(im, c, normalized, used_star, content_quality, ai_response) ==
    IF ~normalized.ok
    THEN [out |-> normalized, ai_calls |-> 0]
    ELSE IF ~CritiqueGate(c)
         THEN [out |-> Returns(FallbackAnalysis(im, used_star,
                                                content_quality)),
               ai_calls |-> 0]
         ELSE IF ~Truthy(ai_response)
              THEN [out |-> Returns(FallbackAnalysis(im, used_star,
                                                     content_quality)),
                    ai_calls |-> 1]
              ELSE IF ParsedReply[ai_response].ok
                      /\ IsDict(ParsedReply[ai_response].v)
                   THEN [out |-> Returns(ParsedAnalysis(im,
                                     ParsedReply[ai_response].v.d,
                                     used_star, content_quality)),
                         ai_calls |-> 1]
                   ELSE [out |-> Returns(FallbackAnalysis(im, used_star,
                                                          content_quality)),
                         ai_calls |-> 1]

\* analyze_response(question_text, user_transcript, fluency_metrics) under
\* configuration c, when call_ai (if it is called) returns ai_response.
\* [out |-> outcome, ai_calls |-> number of call_ai calls made]
analyze_response(im, c, question_text, user_transcript, fluency_metrics, ai_response) ==
    Analyzed(im, c,
             validate_and_normalize_metrics(im, fluency_metrics,
                                            user_transcript),
             StarMethod[im][user_transcript][1],
             calculate_content_quality(im, question_text, user_transcript),
             ai_response)

----------------------------------------------------------------------------
(* The database                                                            *)

SessionIds == {"s1", "s2"}
QuestionIds == {"q1", "q2"}

\* A session as InterviewSession.objects.create leaves it
NewSession == [status |-> "Started", overall_score |-> 0,
               feedback_report |-> EmptyDict]

\* One interview per session, each with one question
InitDb ==
    /\ sessions = [sid \in SessionIds |-> NewSession]
    /\ questions = [qid \in QuestionIds |->
                      IF qid = "q1"
                      THEN [session |-> "s1", text |-> Q1_TEXT,
                            category |-> "Technical"]
                      ELSE [session |-> "s2", text |-> Q2_TEXT,
                            category |-> "Behavioral"]]
    /\ responses = <<>>

\* for q in session.questions.all(): responses.extend(q.responses.all())
SessionResponses(sid) ==
    SelectSeq(responses, LAMBDA r : questions[r.question].session = sid)

----------------------------------------------------------------------------
(* generate_final_report                                                   *)

RECURSIVE RSum(_)
RSum(q) == IF q = <<>> THEN R(0, 1) ELSE RAdd(Head(q), RSum(Tail(q)))

RECURSIVE SumValues(_)
SumValues(f) ==
    IF DOMAIN f = {} THEN R(0, 1)
    ELSE LET k == CHOOSE k \in DOMAIN f : TRUE
         IN RAdd(f[k].n, SumValues([x \in DOMAIN f \ {k} |-> f[x]]))

\* meta.get('voiceMetrics', {})
ReportVoice(resp) ==
    Get(resp.body_language_metadata, "voiceMetrics", PyDict(EmptyDict)).d

RespWpm(resp) == Get(ReportVoice(resp), "words_per_minute", PyInt(0)).n
RespWords(resp) == Get(ReportVoice(resp), "word_count", PyInt(0)).n
RespFillers(resp) ==
    SumValues(Get(ReportVoice(resp), "filler_words", PyDict(EmptyDict)).d)
RespFluency(resp) == resp.fluency_score
RespSentiment(resp) == resp.sentiment_score

\* The content_quality_score entries of the answers that have one
ContentScores(rs) ==
    LET having == SelectSeq(rs, LAMBDA r :
            "content_quality_score" \in DOMAIN r.body_language_metadata)
    IN [i \in 1..Len(having) |->
          R(having[i].body_language_metadata.content_quality_score, 1)]

Avg(q) == RDiv(RSum(q), R(Len(q), 1))

\* No clipping at all
ClampNone(n) == n

\* max(0, min(100, n))
Clamp100(n) == IF n < 0 THEN 0 ELSE IF n > 100 THEN 100 ELSE n

\* pace_score
PaceScore(avg_wpm) ==
    IF RLe(R(100, 1), avg_wpm) /\ RLe(avg_wpm, R(150, 1))
    THEN R(100, 1)
    ELSE RMax(R(0, 1),
              RSub(R(100, 1), RMul(RAbs(RSub(avg_wpm, R(125, 1))), R(4, 5))))

\* comm_score from the averages
CommFrom(pace_score, filler_penalty, avg_fluency) ==
    Clamp100(RInt(RAdd(RAdd(RMul(pace_score, R(1, 2)),
                            RMul(RSub(R(100, 1), filler_penalty), R(3, 10))),
                       RMul(avg_fluency, R(20, 1)))))

\* comm_score
CommScore(rs) ==
    CommFrom(PaceScore(Avg([i \in 1..Len(rs) |-> RespWpm(rs[i])])),
             RMin(R(50, 1), RMul(Avg([i \in 1..Len(rs) |-> RespFillers(rs[i])]), R(12, 1))),
             Avg([i \in 1..Len(rs) |-> RespFluency(rs[i])]))

\* content_score from the averages
ContentFrom(avg_content, depth_score, sentiment_adj) ==
    Clamp100(RInt(RAdd(RAdd(RMul(avg_content, R(1, 2)),
                            RMul(depth_score, R(3, 10))),
                       RMul(sentiment_adj, R(1, 5)))))

\* avg_content
AvgContent(content_scores) ==
    IF content_scores # <<>> THEN Avg(content_scores) ELSE R(50, 1)

\* content_score
ContentScore(rs) ==
    ContentFrom(AvgContent(ContentScores(rs)),
                RMin(R(100, 1), RMul(Avg([i \in 1..Len(rs) |-> RespWords(rs[i])]), R(3, 2))),
                RAdd(RMul(Avg([i \in 1..Len(rs) |-> RespSentiment(rs[i])]), R(50, 1)), R(50, 1)))

\* overall: core/services/interview_service.py weighs 0.5/0.5,
\* core/services.py 0.4/0.4/0.1/0.1 with tech_score = behavioral_score =
\* content_score
OverallScore(im, comm_score, content_score) ==
    IF im = "package"
    THEN Clamp100(RInt(RAdd(RMul(R(comm_score, 1), R(1, 2)),
                            RMul(R(content_score, 1), R(1, 2)))))
    ELSE Clamp100(RInt(RAdd(RAdd(RMul(R(comm_score, 1), R(2, 5)),
                                 RMul(R(content_score, 1), R(2, 5))),
                            RAdd(RMul(R(content_score, 1), R(1, 10)),
                                 RMul(R(content_score, 1), R(1, 10))))))

\* calculate_percentile(score, metric_type)
calculate_percentile(im, score, metric_type) ==
    LET comm == im = "module" /\ metric_type = "communication"
    IN IF score >= 90 THEN (IF comm THEN "85th percentile" ELSE "90th percentile")
       ELSE IF score >= 80 THEN (IF comm THEN "70th percentile" ELSE "75th percentile")
       ELSE IF score >= 70 THEN (IF comm THEN "55th percentile" ELSE "60th percentile")
       ELSE IF score >= 60 THEN (IF comm THEN "40th percentile" ELSE "45th percentile")
       ELSE IF score >= 50 THEN (IF comm THEN "25th percentile" ELSE "30th percentile")
       ELSE IF score >= 40 THEN (IF comm THEN "15th percentile" ELSE "20th percentile")
       ELSE IF score >= 30 THEN (IF comm THEN "8th percentile" ELSE "10th percentile")
       ELSE "Below 10th percentile"

NoResponsesError(im) ==
    IF im = "package" THEN "No responses found."
                      ELSE "No responses found for this session."

\* "overall_score" of the report built around a provider narrative
ReportOverallFromAi(overall_score, ai_report) ==
    Get(ai_report, "overall_score", overall_score)
ReportOverall(overall_score, ai_report) == overall_score

\* 'technical' in r.question.category.lower(), evaluated once per category
Categories == {"Technical", "Behavioral"}
IsTechnical == [c \in Categories |-> Contains(Lower(c), "technical")]

\* "category_scores" of a report
CategoryScores(im, rs, comm_score, content_score) ==
    IF im = "package"
    THEN <<[name |-> "Communication", score |-> comm_score],
           [name |-> "Content Quality", score |-> content_score]>>
    ELSE LET technical_responses ==
               SelectSeq(rs, LAMBDA r :
                   IsTechnical[questions[r.question].category])
         IN <<[name |-> "Communication", score |-> comm_score,
               percentile |-> calculate_percentile(im, comm_score,
                                                   "communication")],
              [name |-> "Content Quality", score |-> content_score],
              [name |-> IF technical_responses # <<>> THEN "Technical"
                                                      ELSE "Domain Knowledge",
               score |-> content_score],
              [name |-> "Behavioral", score |-> content_score]>>

\* The report whose narrative is computed from the metrics
LocalReport(im, rs, comm_score, content_score, overall_score) ==
    [overall_score |-> overall_score,
     percentile |-> calculate_percentile(im, overall_score, "overall"),
     category_scores |-> CategoryScores(im, rs, comm_score, content_score),
     narrative |-> [source |-> "metrics"]]

\* The report of core/services.py whose narrative is the provider's
AiReport(im, rs, comm_score, content_score, overall_score, ai_report) ==
    [overall_score |-> ReportOverall(overall_score, ai_report),
     percentile |-> calculate_percentile(im, overall_score, "overall"),
     category_scores |-> CategoryScores(im, rs, comm_score, content_score),
     narrative |-> [source |-> "provider",
                    strengths |-> Take(Get(ai_report, "strengths", <<>>), 5)]]

\* The report of generate_final_report once the scores are computed
ScoredReport(im, c, rs, comm_score, content_score, overall_score, ai_response) ==
    IF im = "package" \/ ~CritiqueGate(c)
    THEN [report |-> LocalReport(im, rs, comm_score, content_score,
                                 overall_score),
          ai_calls |-> 0]
    ELSE IF ~Truthy(ai_response)
         THEN [report |-> LocalReport(im, rs, comm_score, content_score,
                                      overall_score),
               ai_calls |-> 1]
         ELSE IF ParsedReply[ai_response].ok
                 /\ IsDict(ParsedReply[ai_response].v)
              THEN [report |-> AiReport(im, rs, comm_score, content_score,
                                        overall_score,
                                        ParsedReply[ai_response].v.d),
                    ai_calls |-> 1]
              ELSE [report |-> LocalReport(im, rs, comm_score, content_score,
                                           overall_score),
                    ai_calls |-> 1]

\* The scores of the answers rs, then the report
ReportOf(im, c, rs, comm_score, content_score, ai_response) ==
    ScoredReport(im, c, rs, comm_score, content_score,
                 OverallScore(im, comm_score, content_score), ai_response)

\* <<comm_score, content_score>> of the answers rs, computed before the
\* provider is asked
Scores(rs) ==
    IF rs = <<>> THEN <<>> ELSE <<CommScore(rs), ContentScore(rs)>>

\* The body of generate_final_report on the answers rs of the session
ReportOn(im, c, rs, scores, ai_response) ==
    IF rs = <<>>
    THEN [report |-> [error |-> NoResponsesError(im)], ai_calls |-> 0]
    ELSE ReportOf(im, c, rs, scores[1], scores[2], ai_response)

\* generate_final_report(session_id) under configuration c, when call_ai (if
\* it is called) returns ai_response. [report, ai_calls]; the report is
\* saved in the session unless it is the error result.
generate_final_report(im, c, sid, ai_response) ==
    ReportOn(im, c, SessionResponses(sid), Scores(SessionResponses(sid)),
             ai_response)

\* session.feedback_report = report (and, in core/services/, overall_score)
\* followed by session.save()
SaveReport(im, session, report) ==
    [session EXCEPT !.feedback_report = report,
                    !.overall_score = IF im = "package" THEN report.overall_score
                                                        ELSE @]

----------------------------------------------------------------------------
(* The request handlers submit_response and get_result                     *)

MaxResponses == 2

\* Transcripts a client submits
SubmitTranscripts == {"  ", SKIP_SENTINEL, T_PLAIN, T_STAR}

\* The fluency_metrics field of a request: a JSON text (multipart form) or
\* a parsed value (JSON body)
SubmitMetrics ==
    {PyStr("{oops"), PyStr("null"),
     PyDict("voiceMetrics" :> PyNone),
     PyDict("fluency_score" :> PyNum(4, 5)
            @@ "voiceMetrics" :> PyDict("word_count" :> PyInt(12)
                                        @@ "speaking_duration_seconds" :> PyInt(6)))}

\* The configurations the handlers are run under
EvalConfigs == {{}, {"Groq"}, {"Gemini", "OpenAI"}}

\* is_skipped
IsSkippedNever(transcript) == FALSE
IsSkipped(transcript) == transcript = SKIP_SENTINEL

\* The analysis of a skipped question
SkippedAnalysis ==
    [is_answer_correct |-> FALSE,
     feedback_text |-> "Question was skipped. Try to answer all questions for better practice.",
     strengths |-> <<"Knowing when to move on can be strategic in real interviews">>,
     sentiment_score |-> R(0, 1),
     star_method_used |-> FALSE,
     content_quality_score |-> 0]

\* The fluency_metrics a request carries, after the JSON parse
ParseMetrics(fluency_metrics_raw) ==
    IF fluency_metrics_raw.t = "str"
    THEN LET parsed == json_loads(fluency_metrics_raw.s)
         IN IF parsed.ok THEN parsed.v ELSE PyDict(EmptyDict)
    ELSE fluency_metrics_raw

\* The voice_metrics object stored with the answer: taken from the request
\* before the analysis, which normalizes that same object in place
StoredVoiceMetrics(im, fluency_metrics, transcript, is_skipped) ==
    IF "voiceMetrics" \notin DOMAIN fluency_metrics.d
    THEN PyDict(EmptyDict)
    ELSE IF is_skipped
         THEN fluency_metrics.d["voiceMetrics"]
         ELSE validate_and_normalize_metrics(im, fluency_metrics,
                                             transcript).v.d["voiceMetrics"]

\* InterviewResponse.objects.create(...)
NewResponse(im, question_id, transcript, fluency_metrics, is_skipped, analysis) ==
    [question |-> question_id,
     transcript |-> transcript,
     fluency_score |-> Get(fluency_metrics.d, "fluency_score", PyInt(0)).n,
     sentiment_score |-> Get(analysis, "sentiment_score", R(0, 1)),
     feedback_text |-> Get(analysis, "feedback_text", ""),
     body_language_metadata |->
        [voice_metrics |-> StoredVoiceMetrics(im, fluency_metrics, transcript,
                                              is_skipped),
         star_method_used |-> Get(analysis, "star_method_used", FALSE),
         content_quality_score |-> Get(analysis, "content_quality_score", 0)]]

\* What the handler leaves when it answers without storing anything
Rejected(sid, http) ==
    [op |-> "submit_response", session |-> sid, status |-> http]

\* request.data.get('transcript', '').strip(), evaluated once per text
Stripped == [t \in SubmitTranscripts |-> Strip(t)]

\* The transcript the handler works on
SubmittedTranscript(raw_transcript) ==
    IF Stripped[raw_transcript] = "" THEN SKIP_SENTINEL
                                     ELSE Stripped[raw_transcript]

\* The composite of one answer in detect_performance_trend
Composite(resp) ==
    RAdd(RAdd(RMul(resp.fluency_score, R(20, 1)), RMul(resp.sentiment_score, R(50, 1))),
         RMin(R(100, 1), RMul(RespWords(resp), R(3, 2))))

\* InterviewResponse.objects.filter(question__session=session)
\*     .order_by('-created_at')[:3] over the stored answers rs of the session
RecentResponses(rs) == [i \in 1..(IF Len(rs) < 3 THEN Len(rs) ELSE 3) |-> rs[Len(rs) - i + 1]]

\* detect_performance_trend(recent_responses)
detect_performance_trend(recent_responses) ==
    IF Len(recent_responses) < 2
    THEN "new"
    ELSE LET scores == [i \in 1..Len(recent_responses) |-> Composite(recent_responses[i])]
             newer == scores[Len(scores)]
             older == scores[Len(scores) - 1]
         IN IF ~RLe(newer, RAdd(older, R(15, 1))) THEN "improving"
            ELSE IF ~RLe(RSub(older, R(15, 1)), newer) THEN "struggling"
            ELSE "consistent"

\* The answer is stored and returned
Store(sid, question_id, raw_transcript, transcript, fluency_metrics, is_skipped, analysis, analyze_calls, ai_calls) ==
    \E stored \in {Append(responses, NewResponse(impl, question_id, transcript, fluency_metrics, is_skipped, analysis))} :
       /\ responses' = stored
       /\ last' = [op |-> "submit_response",
                   session |-> sid,
                   status |-> 200,
                   raw_transcript |-> raw_transcript,
                   analyze_calls |-> analyze_calls,
                   ai_calls |-> ai_calls,
                   analysis |-> analysis,
                   performance_trend |->
                       detect_performance_trend(RecentResponses(
                           SelectSeq(stored, LAMBDA r : questions[r.question].session = sid)))]

\* POST /sessions/<sid>/submit_response/
SubmitResponse(sid, question_id, raw_transcript, fluency_metrics_raw) ==
    /\ Len(responses) < MaxResponses
    /\ \E transcript \in {SubmittedTranscript(raw_transcript)},
          fluency_metrics \in {ParseMetrics(fluency_metrics_raw)} :
         IF question_id = None
         THEN /\ last' = Rejected(sid, 400)
              /\ UNCHANGED responses
         ELSE IF \/ questions[question_id].session # sid   \* Http404
                 \/ ~IsDict(fluency_metrics)                \* AttributeError
              THEN /\ last' = Rejected(sid, 500)
                   /\ UNCHANGED responses
              ELSE IF IsSkipped(transcript)
                   THEN Store(sid, question_id, raw_transcript, transcript,
                              fluency_metrics, TRUE, SkippedAnalysis, 0, 0)
                   ELSE \E ai_response \in
                              IF CritiqueGate(cfg) THEN CallAiResults(cfg)
                                                   ELSE {None} :
                        \E analyzed \in
                              {analyze_response(impl, cfg,
                                   questions[question_id].text, transcript,
                                   fluency_metrics, ai_response)} :
                          IF ~analyzed.out.ok
                          THEN /\ last' = Rejected(sid, 500)
                               /\ UNCHANGED responses
                          ELSE Store(sid, question_id, raw_transcript,
                                     transcript, fluency_metrics, FALSE,
                                     analyzed.out.v, 1, analyzed.ai_calls)
    /\ UNCHANGED <<impl, sessions, questions, aiVars, fnVars, rqVars, pvVars>>

\* `if 'error' in report:`
ReportHasErrorNever(report) == FALSE
ReportHasError(report) == "error" \in DOMAIN report

\* The row of the session after get_result, from the row `session` the
\* handler read at its start and the row `saved` the service left
AfterResult(session, saved, report) ==
    IF ReportHasError(report)
    THEN saved
    ELSE IF session.status # "Completed"
         \* the handler's own copy of the row, read before the report was
         \* saved, is written back whole
         THEN [session EXCEPT !.status = "Completed",
                              !.overall_score = Get(report, "overall_score", 0)]
         ELSE saved

\* GET /sessions/<sid>/get_result/
GetResult(sid) ==
    \E scores \in {Scores(SessionResponses(sid))} :
    \E ai_response \in
         IF impl = "module" /\ CritiqueGate(cfg) /\ SessionResponses(sid) # <<>>
         THEN CallAiResults(cfg) ELSE {None} :
    \E generated \in {ReportOn(impl, cfg, SessionResponses(sid), scores,
                               ai_response)} :
       /\ sessions' = [sessions EXCEPT ![sid] =
               AfterResult(sessions[sid],
                           IF "error" \in DOMAIN generated.report
                           THEN sessions[sid]
                           ELSE SaveReport(impl, sessions[sid],
                                           generated.report),
                           generated.report)]
       /\ last' = [op |-> "get_result", session |-> sid,
                   status |-> IF ReportHasError(generated.report) THEN 400
                                                                  ELSE 200,
                   report |-> generated.report,
                   ai_calls |-> generated.ai_calls,
                   before |-> sessions[sid]]
       /\ UNCHANGED <<impl, questions, responses, aiVars, fnVars, rqVars, pvVars>>

InitEval ==
    /\ cfg \in EvalConfigs
    /\ StartAI
    /\ impl \in Impls
    /\ InitDb
    /\ last = [op |-> "none"]
    /\ IdleFn
    /\ IdleReq /\ IdleProv

NextEval ==
    \/ \E sid \in SessionIds, question_id \in QuestionIds \cup {None},
          raw_transcript \in SubmitTranscripts,
          fluency_metrics_raw \in SubmitMetrics :
         SubmitResponse(sid, question_id, raw_transcript, fluency_metrics_raw)
    \/ \E sid \in SessionIds : GetResult(sid)

SpecEval == InitEval /\ [][NextEval]_vars

----------------------------------------------------------------------------
(* Properties of submit_response and get_result                            *)

\* The answer stored by the last submit_response
StoredAnswer == responses[Len(responses)]

\* The last request was a submit_response that stored an answer
Submitted200 == last.op = "submit_response" /\ last.status = 200

\* The last request was a get_result on a session without answers
ResultOfEmptySession ==
    last.op = "get_result" /\ SessionResponses(last.session) = <<>>

\* C3: report generation for a session with no answer records returns the
\* error result ("No responses found." in core/services/) and never a
\* report with scores; get_result answers 400 and leaves the session's
\* feedback_report, overall_score and status as they were, not Completed.
C3_NoResponses ==
    ResultOfEmptySession =>
        /\ last.status = 400
        /\ last.report = [error |-> NoResponsesError(impl)]
        /\ impl = "package" => last.report.error = "No responses found."
        /\ "overall_score" \notin DOMAIN last.report
        /\ "category_scores" \notin DOMAIN last.report
        /\ last.ai_calls = 0
        /\ sessions[last.session] = last.before
        /\ sessions[last.session].status # "Completed"

\* get_result answered 400 for a session without answers while the other
\* session has answers and a report
C3_Witness ==
    /\ ResultOfEmptySession
    /\ last.status = 400
    /\ Len(responses) > 0
    /\ \E sid \in SessionIds : sessions[sid].status = "Completed"

\* The request carried the skip sentinel (or nothing but whitespace, which
\* the handler replaces by the sentinel) and an answer was stored
SkipStored ==
    Submitted200 /\ SubmittedTranscript(last.raw_transcript) = SKIP_SENTINEL

\* The fixed values of a skipped answer, and no call of analyze_response or
\* call_ai
SkipFixed ==
    /\ StoredAnswer.transcript = SKIP_SENTINEL
    /\ StoredAnswer.body_language_metadata.content_quality_score = 0
    /\ StoredAnswer.body_language_metadata.star_method_used = FALSE
    /\ StoredAnswer.sentiment_score = R(0, 1)
    /\ last.analyze_calls = 0
    /\ last.ai_calls = 0

C5_HeuristicsAlwaysPresent ==
    (Submitted200 /\ last.analyze_calls = 1) =>
        /\ "star_method_used" \in DOMAIN last.analysis
        /\ "content_quality_score" \in DOMAIN last.analysis
        /\ last.analysis.star_method_used
               = detect_star_method(impl, StoredAnswer.transcript)[1]
        /\ last.analysis.content_quality_score
               = calculate_content_quality(impl,
                     questions[StoredAnswer.question].text,
                     StoredAnswer.transcript)

\* The numeric scores of a report
ReportScores(report) ==
    [overall_score |-> report.overall_score,
     category_scores |-> [i \in DOMAIN report.category_scores |->
                            <<report.category_scores[i].name,
                              report.category_scores[i].score>>]]

\* The scores computed from the answers alone
LocalScores(im, rs, comm_score, content_score) ==
    ReportScores(LocalReport(im, rs, comm_score, content_score,
                             OverallScore(im, comm_score, content_score)))

\* C6: the numeric scores of a generated report (overall_score and every
\* category score) are the locally computed values: generations over the
\* same answer records that differ only in what the provider returns yield
\* identical overall_score and category scores.
C6_ScoresLocal ==
    (last.op = "get_result" /\ last.status = 200) =>
        /\ ReportScores(last.report)
              = LocalScores(impl, SessionResponses(last.session),
                            CommScore(SessionResponses(last.session)),
                            ContentScore(SessionResponses(last.session)))
        /\ \A ai_response \in CallAiResults(cfg) :
              ReportScores(generate_final_report(impl, cfg, last.session,
                                                 ai_response).report)
                 = ReportScores(last.report)

\* A report of core/services.py whose narrative came from a provider that
\* also sent an overall_score of 99
C6_Witness ==
    /\ last.op = "get_result"
    /\ last.status = 200
    /\ impl = "module"
    /\ last.report.narrative.source = "provider"
    /\ last.report.overall_score # AI_OBJECT.overall_score
    /\ Len(SessionResponses(last.session)) = MaxResponses

\* A transcript that is empty or only whitespace
Blank(raw_transcript) == \A i \in 1..Len(raw_transcript) : IsSpace(Char(raw_transcript, i))

\* C11: an empty or whitespace-only transcript submitted to submit_response
\* is treated as a real, very short answer and not as a skip: it is
\* evaluated by analyze_response like any other answer, and it is stored
\* neither with the skip sentinel nor with the fixed skipped-answer record.
C11_BlankIsAnswer ==
    (Submitted200 /\ Blank(last.raw_transcript))
        => /\ StoredAnswer.transcript # SKIP_SENTINEL
           /\ last.analyze_calls = 1
           /\ last.analysis # SkippedAnalysis

----------------------------------------------------------------------------
(* analyze_response called on its own, under every backend configuration   *)

\* The arguments of one call; a voiceMetrics of null makes the normalizer
\* raise before the critique step
AnalyzeInputs ==
    [question_text : {Q1_TEXT, Q2_TEXT},
     user_transcript : {T_PLAIN, T_STAR},
     fluency_metrics : {PyDict(EmptyDict), PyDict("voiceMetrics" :> PyNone),
                        PyDict("voiceMetrics" :> PyDict("word_count" :> PyInt(12)))}]

InitAnalyze ==
    /\ cfg \in SUBSET Backends
    /\ StartAI
    /\ EmptyDb
    /\ impl \in Impls
    /\ fnIn \in AnalyzeInputs
    /\ fnOut = <<>>
    /\ IdleReq /\ IdleProv

\* One call of analyze_response: call_ai, when the call reaches it, returns
\* any of the values it can return under the configuration
Analyze ==
    /\ fnOut = <<>>
    /\ \E normalized \in {validate_and_normalize_metrics(impl, fnIn.fluency_metrics, fnIn.user_transcript)} :
       \E ai_response \in IF normalized.ok /\ CritiqueGate(cfg)
                          THEN CallAiResults(cfg) ELSE {None} :
          fnOut' = <<[ai_response |-> ai_response,
                      result |-> analyze_response(impl, cfg, fnIn.question_text, fnIn.user_transcript, fnIn.fluency_metrics, ai_response)]>>
    /\ UNCHANGED <<fnIn, aiVars, evVars, rqVars, pvVars>>

NextAnalyze == Analyze

SpecAnalyze == InitAnalyze /\ [][NextAnalyze]_vars

\* analyze_response has returned a record
AnalyzeReturned == fnOut # <<>> /\ fnOut[1].result.out.ok

\* C12: analyze_response asks the gateway (call_ai) for a critique whenever
\* at least one text-generation backend is configured, for every non-empty
\* subset of Groq, Cerebras, Gemini, OpenRouter, Bytez, OpenAI and
\* Perplexity, and skips the gateway only when none is configured.
C12_AsksWheneverConfigured ==
    AnalyzeReturned => (fnOut[1].result.ai_calls >= 1 <=> cfg # {})

\* The gateway answered the critique prompt with a text that is no critique
\* object: prose, or JSON that is not an object
Unparsable == fnOut # <<>> /\ fnOut[1].ai_response \in {REPLY_PROSE, REPLY_LIST}

\* C13: when the text returned by the gateway cannot be parsed as the
\* structured critique, analyze_response returns the deterministic fallback
\* record ("AI unavailable") without raising and without calling the gateway
\* again; call_ai is invoked at most once per analyze_response call.
C13_UnparsableFallsBack ==
    /\ fnOut # <<>> => fnOut[1].result.ai_calls <= 1
    /\ Unparsable =>
         /\ fnOut[1].result.ai_calls = 1
         /\ fnOut[1].result.out =
              Returns(FallbackAnalysis(impl, StarMethod[impl][fnIn.user_transcript][1],
                         calculate_content_quality(impl, fnIn.question_text, fnIn.user_transcript)))
         /\ impl = "package" =>
              fnOut[1].result.out.v.feedback_text = "AI unavailable. Check metrics."

\* A fenced JSON array came back from the only configured backend and the
\* fallback record was returned
C13_Witness ==
    /\ Unparsable
    /\ fnOut[1].ai_response = REPLY_LIST
    /\ impl = "package"
    /\ cfg = {"OpenRouter"}
    /\ fnOut[1].result.out.ok
    /\ fnOut[1].result.out.v.star_method_used

\* The last request was a get_result that returned a report
Reported == last.op = "get_result" /\ last.status = 200

\* C14: after get_result returns a report for a session, whatever the
\* session's status and cached report were before the call, the session
\* record's cached feedback_report is the report just computed and its
\* cached overall_score equals the returned overall_score.
C14_CacheIsReturned ==
    Reported =>
        /\ sessions[last.session].feedback_report = last.report
        /\ sessions[last.session].overall_score = last.report.overall_score

----------------------------------------------------------------------------
(* Two report requests for the same session, running concurrently          *)

Requests == {"r1", "r2"}

\* The session both requests ask the report of
REPORT_SESSION == "s1"

NoRequestStarted == \A p \in Requests : req[p].at = "start"
AllAnswered == \A p \in Requests : req[p].at = "done"

InitReports ==
    /\ IdleAI
    /\ impl \in Impls
    /\ InitDb
    /\ last = [op |-> "none"]
    /\ IdleFn
    /\ req = [p \in Requests |-> [at |-> "start"]]
    /\ IdleProv

\* session = self.get_object(): the view's copy of the row
ViewLoad(p) ==
    /\ req[p].at = "start"
    /\ req' = [req EXCEPT ![p] = [at |-> "loaded", session |-> sessions[REPORT_SESSION]]]
    /\ UNCHANGED <<aiVars, evVars, fnVars, pvVars>>

\* generate_final_report up to its save: the service's own copy of the row,
\* the answers and the report computed from them; on the error result the
\* view answers 400 at once
ServiceLoad(p) ==
    /\ req[p].at = "loaded"
    /\ \E generated \in {generate_final_report(impl, cfg, REPORT_SESSION, None)} :
         req' = [req EXCEPT ![p] =
                   [at |-> IF ReportHasError(generated.report) THEN "done" ELSE "computed",
                    session |-> req[p].session,
                    svc |-> sessions[REPORT_SESSION],
                    report |-> generated.report]]
    /\ UNCHANGED <<aiVars, evVars, fnVars, pvVars>>

\* session.save() in generate_final_report: every column of the service's
\* copy is written
ServiceSave(p) ==
    /\ req[p].at = "computed"
    /\ sessions' = [sessions EXCEPT ![REPORT_SESSION] = SaveReport(impl, req[p].svc, req[p].report)]
    /\ req' = [req EXCEPT ![p].at = "saved"]
    /\ UNCHANGED <<impl, questions, responses, last, aiVars, fnVars, pvVars>>

\* The rest of get_result: mark the view's copy Completed and save it,
\* unless that copy was already Completed
ViewFinish(p) ==
    /\ req[p].at = "saved"
    /\ sessions' = [sessions EXCEPT ![REPORT_SESSION] = AfterResult(req[p].session, sessions[REPORT_SESSION], req[p].report)]
    /\ req' = [req EXCEPT ![p].at = "done"]
    /\ UNCHANGED <<impl, questions, responses, last, aiVars, fnVars, pvVars>>

\* The answers are submitted before the first report request arrives
NextReports ==
    \/ /\ NoRequestStarted
       /\ \E question_id \in {"q1"}, raw_transcript \in {T_PLAIN, T_STAR}, fluency_metrics_raw \in SubmitMetrics :
            SubmitResponse(REPORT_SESSION, question_id, raw_transcript, fluency_metrics_raw)
    \/ \E p \in Requests : ViewLoad(p)
    \/ \E p \in Requests : ServiceLoad(p)
    \/ \E p \in Requests : ServiceSave(p)
    \/ \E p \in Requests : ViewFinish(p)

SpecReports == InitReports /\ [][NextReports]_vars

\* The row a single get_result leaves for a session that was never reported
SingleRequestRow ==
    LET report == generate_final_report(impl, cfg, REPORT_SESSION, None).report
    IN AfterResult(NewSession, IF ReportHasError(report) THEN NewSession ELSE SaveReport(impl, NewSession, report), report)

\* The scores of a cached report; none when no report is cached
CachedScores(row) ==
    IF row.feedback_report = EmptyDict THEN <<>> ELSE ReportScores(row.feedback_report)

\* C15: for every interleaving of two report requests on the same session
\* with an unchanged answer set, the session's final cached feedback_report
\* scores and overall_score equal those left by a single request.
C15_TwoRequestsAsOne ==
    AllAnswered =>
        /\ CachedScores(sessions[REPORT_SESSION]) = CachedScores(SingleRequestRow)
        /\ sessions[REPORT_SESSION].overall_score = SingleRequestRow.overall_score

----------------------------------------------------------------------------
(* Report scores over answer records with arbitrary values                 *)

MaxAnswers == 2

\* An answer record with the given fluency and sentiment, voice metrics and
\* content-quality score
ScoredAnswer(fluency, sentiment, wpm, words, fillers, quality) ==
    [question |-> "q1", transcript |-> T_PLAIN, feedback_text |-> "",
     fluency_score |-> fluency, sentiment_score |-> sentiment,
     body_language_metadata |->
        ("voiceMetrics" :> PyDict("words_per_minute" :> PyInt(wpm)
                                  @@ "word_count" :> PyInt(words)
                                  @@ "filler_words" :> PyDict("um" :> PyInt(fillers)))
         @@ "star_method_used" :> FALSE
         @@ "content_quality_score" :> quality)]

\* An answer record as submit_response stores it: content-quality score
\* absent or present, no voiceMetrics key
PlainAnswer(has_quality) ==
    [question |-> "q2", transcript |-> T_STAR, feedback_text |-> "",
     fluency_score |-> R(4, 5), sentiment_score |-> R(1, 2),
     body_language_metadata |->
        IF has_quality THEN "star_method_used" :> TRUE @@ "content_quality_score" :> 70
                       ELSE "star_method_used" :> TRUE]

\* Records whose every value is far below or far above its usual range
\* (pace: words per minute and word count)
ExtremeAnswers ==
    {ScoredAnswer(fluency, sentiment, pace[1], pace[2], fillers, quality) :
        fluency \in {R(-10, 1), R(10, 1)}, sentiment \in {R(-5, 1), R(3, 1)},
        pace \in {<<0, 0>>, <<1000, 500>>}, fillers \in {0, 30},
        quality \in {-50, 1000}}

AnswerRecords ==
    ExtremeAnswers \cup {PlainAnswer(TRUE), PlainAnswer(FALSE),
                         ScoredAnswer(R(4, 5), R(1, 2), 125, 40, 1, 60)}

InitScores ==
    /\ IdleAI
    /\ impl \in Impls
    /\ InitDb
    /\ last = [op |-> "none"]
    /\ fnIn \in UNION {[1..n -> AnswerRecords] : n \in 1..MaxAnswers}
    /\ fnOut = <<>>
    /\ IdleReq /\ IdleProv

\* The report generated from the answer records fnIn
Score ==
    /\ fnOut = <<>>
    /\ fnOut' = <<ReportOn(impl, cfg, fnIn, Scores(fnIn), None).report>>
    /\ UNCHANGED <<fnIn, aiVars, evVars, rqVars, pvVars>>

NextScores == Score

SpecScores == InitScores /\ [][NextScores]_vars

\* The score the report lists for a category
CategoryScore(report, name) ==
    LET i == CHOOSE i \in DOMAIN report.category_scores : report.category_scores[i].name = name
    IN report.category_scores[i].score

\* C16: for every non-empty set of answer records, with any values of
\* words-per-minute, filler counts, word counts, fluency, sentiment and
\* content-quality scores, the communication score, the content score and
\* the overall_score of the generated report are integers in 0..100.
C16_ScoresInRange ==
    fnOut # <<>> =>
        /\ CategoryScore(fnOut[1], "Communication") \in 0..100
        /\ CategoryScore(fnOut[1], "Content Quality") \in 0..100
        /\ fnOut[1].overall_score \in 0..100

\* Two answers with fluency 10 and content quality -50 and sentiment -5:
\* the communication score is clipped from above, the content score from
\* below
C16_Witness ==
    /\ fnOut # <<>>
    /\ Len(fnIn) = 2
    /\ \A i \in 1..2 : fnIn[i].fluency_score = R(10, 1) /\ fnIn[i].sentiment_score = R(-5, 1)
    /\ CategoryScore(fnOut[1], "Communication") = 100
    /\ CategoryScore(fnOut[1], "Content Quality") = 0
    /\ fnOut[1].overall_score = 50

----------------------------------------------------------------------------
(* detect_star_method of core/services/helper_functions.py on its own      *)

\* The phrases a transcript is put together from: for each cue category
\* nothing, or a phrase with one cue of that category in some casing
SituationParts == {"", "when i was new ", "IN MY ROLE "}
TaskParts == {"", "I had to "}
ActionParts == {"", "I Did it ", "i created it "}
ResultParts == {"", "Improved. ", "the RESULT "}
Openings == {"", "Well then, "}

\* A transcript and the cue categories its phrases belong to
Phrased(opening, s, t, a, r) ==
    [transcript |-> opening \o s \o t \o a \o r,
     categories |-> {c \in {"situation", "task", "action", "result"} :
                       \/ c = "situation" /\ s # ""
                       \/ c = "task" /\ t # ""
                       \/ c = "action" /\ a # ""
                       \/ c = "result" /\ r # ""}]

StarInputs ==
    {Phrased(opening, s, t, a, r) :
        opening \in Openings, s \in SituationParts, t \in TaskParts,
        a \in ActionParts, r \in ResultParts}

InitStar ==
    /\ IdleAI
    /\ IdleEval
    /\ fnIn \in StarInputs
    /\ fnOut = <<>>
    /\ IdleReq /\ IdleProv

\* One call of detect_star_method
DetectStar ==
    /\ fnOut = <<>>
    /\ fnOut' = <<detect_star_method(impl, fnIn.transcript)>>
    /\ UNCHANGED <<fnIn, aiVars, evVars, rqVars, pvVars>>

NextStar == DetectStar

SpecStar == InitStar /\ [][NextStar]_vars

\* C17: detect_star_method returns (false, 0) for every transcript that is
\* empty or shorter than 20 characters; for every other transcript its
\* component score is the number of the four cue categories (situation,
\* task, action, result) with at least one case-insensitive match, and used
\* is true if and only if that number is at least 3.
C17_StarScore ==
    fnOut # <<>> =>
        IF Len(fnIn.transcript) < 20
        THEN fnOut[1] = <<FALSE, 0>>
        ELSE /\ fnOut[1][2] = Cardinality(fnIn.categories)
             /\ fnOut[1][1] <=> Cardinality(fnIn.categories) >= 3

\* A call at exactly three categories, two of them matched only because the
\* comparison ignores case
C17_Witness ==
    /\ fnIn.transcript = "IN MY ROLE I had to the RESULT "
    /\ fnIn.categories = {"situation", "task", "result"}
    /\ fnOut = <<<<TRUE, 3>>>>

----------------------------------------------------------------------------
(* calculate_content_quality on its own                                    *)

InitQuality ==
    /\ IdleAI
    /\ EmptyDb
    /\ impl \in Impls
    /\ fnIn \in [question_text : QuestionTexts, answer_text : AnswerTexts]
    /\ fnOut = <<>>
    /\ IdleReq /\ IdleProv

\* One call of calculate_content_quality
ContentQuality ==
    /\ fnOut = <<>>
    /\ fnOut' = <<calculate_content_quality(impl, fnIn.question_text, fnIn.answer_text)>>
    /\ UNCHANGED <<fnIn, aiVars, evVars, rqVars, pvVars>>

NextQuality == ContentQuality

SpecQuality == InitQuality /\ [][NextQuality]_vars

\* The answers that have fewer than 5 characters once the surrounding
\* whitespace is stripped
ShortAnswers == {T_EMPTY, T_SPACES, T_PADDED, T_FOUR}

\* C18: calculate_content_quality returns an integer in 0..100 for every
\* question text and answer text, and exactly 0 whenever the answer,
\* stripped of surrounding whitespace, has fewer than 5 characters.
C18_QualityInRange ==
    fnOut # <<>> =>
        /\ fnOut[1] \in 0..100
        /\ fnIn.answer_text \in ShortAnswers => fnOut[1] = 0

\* An answer of seven characters of which two are left after stripping
\* scored 0
C18_Witness ==
    /\ fnIn.answer_text = T_PADDED
    /\ fnIn.question_text = Q1_TEXT
    /\ fnOut = <<0>>

----------------------------------------------------------------------------
(* delete_session                                                          *)

\* No cascade: the questions of a deleted session stay
SessionQuestionsNone(sid) == {}

\* session.questions: the rows that Question.session (on_delete=CASCADE)
\* ties to the session
SessionQuestions(sid) == {qid \in DOMAIN questions : questions[qid].session = sid}

\* f without the keys in gone
Without(f, gone) == [k \in DOMAIN f \ gone |-> f[k]]

\* delete_session for session sid: session.delete() removes the row, the
\* cascade removes its questions and, through InterviewResponse.question
\* (on_delete=CASCADE), their answers; a session that does not exist makes
\* get_object raise and the handler answers 500
DeleteSession(sid) ==
    /\ IF sid \notin DOMAIN sessions
       THEN /\ last' = [op |-> "delete_session", session |-> sid, status |-> 500]
            /\ UNCHANGED <<sessions, questions, responses>>
       ELSE /\ sessions' = Without(sessions, {sid})
            /\ questions' = Without(questions, SessionQuestions(sid))
            /\ responses' = SelectSeq(responses, LAMBDA r : r.question \notin SessionQuestions(sid))
            /\ last' = [op |-> "delete_session", session |-> sid, status |-> 204,
                        db |-> [sessions |-> sessions, questions |-> questions, responses |-> responses]]
    /\ UNCHANGED <<impl, aiVars, fnVars, rqVars, pvVars>>

InitDelete ==
    /\ IdleAI
    /\ impl \in Impls
    /\ InitDb
    /\ last = [op |-> "none"]
    /\ IdleFn
    /\ IdleReq /\ IdleProv

\* Answers are submitted to, and reports asked of, the sessions that exist;
\* any session can be asked to be deleted
NextDelete ==
    \/ \E sid \in DOMAIN sessions, question_id \in DOMAIN questions, raw_transcript \in {T_PLAIN, SKIP_SENTINEL} :
         SubmitResponse(sid, question_id, raw_transcript, PyStr("{}"))
    \/ \E sid \in DOMAIN sessions : GetResult(sid)
    \/ \E sid \in SessionIds : DeleteSession(sid)

SpecDelete == InitDelete /\ [][NextDelete]_vars

\* The last request was a delete_session that succeeded
Deleted == last.op = "delete_session" /\ last.status = 204

\* C19: after delete_session succeeds for a session, that session no longer
\* exists and no question and no answer record that belonged to it remains,
\* while the sessions, questions and answer records of other sessions are
\* unchanged.
C19_DeleteFrame ==
    Deleted =>
        /\ last.session \notin DOMAIN sessions
        /\ \A qid \in DOMAIN questions : questions[qid].session # last.session
        /\ \A i \in 1..Len(responses) : last.db.questions[responses[i].question].session # last.session
        /\ sessions = Without(last.db.sessions, {last.session})
        /\ \A qid \in DOMAIN last.db.questions :
              last.db.questions[qid].session # last.session
                 => qid \in DOMAIN questions /\ questions[qid] = last.db.questions[qid]
        /\ responses = SelectSeq(last.db.responses, LAMBDA r : last.db.questions[r.question].session # last.session)

\* Session s1 was deleted with an answer of its own while s2, Completed and
\* with an answer, stays
C19_Witness ==
    /\ Deleted
    /\ last.session = "s1"
    /\ \E i \in 1..Len(last.db.responses) : last.db.responses[i].question = "q1"
    /\ Len(responses) = 1
    /\ "s2" \in DOMAIN sessions
    /\ sessions["s2"].status = "Completed"

\* The categories of the questions of a session that have an answer
AnsweredCategories(sid) ==
    {questions[SessionResponses(sid)[i].question].category : i \in 1..Len(SessionResponses(sid))}

\* C20: a generated report lists a category score only for a category that
\* has at least one contributing answer: a Technical, Behavioral or
\* substitute-named (Domain Knowledge, standing in for Technical) category
\* score is never emitted for a session in which no answered question
\* carries that category.
C20_OnlyAnsweredCategories ==
    Reported =>
        \A i \in DOMAIN last.report.category_scores :
           /\ last.report.category_scores[i].name \in {"Technical", "Domain Knowledge"}
                 => "Technical" \in AnsweredCategories(last.session)
           /\ last.report.category_scores[i].name = "Behavioral"
                 => "Behavioral" \in AnsweredCategories(last.session)

----------------------------------------------------------------------------
(* calculate_percentile on its own                                         *)

\* The metric types passed by the callers, and one no table is kept for
MetricTypes == {"overall", "communication", "technical"}

InitPercentile ==
    /\ IdleAI
    /\ EmptyDb
    /\ impl \in Impls
    /\ fnIn \in [score : 0..100, metric_type : MetricTypes]
    /\ fnOut = <<>>
    /\ IdleReq /\ IdleProv

\* One call of calculate_percentile
Percentile ==
    /\ fnOut = <<>>
    /\ fnOut' = <<calculate_percentile(impl, fnIn.score, fnIn.metric_type)>>
    /\ UNCHANGED <<fnIn, aiVars, evVars, rqVars, pvVars>>

NextPercentile == Percentile

SpecPercentile == InitPercentile /\ [][NextPercentile]_vars

\* C21: calculate_percentile uses a threshold table chosen by metric_type:
\* for "communication" it applies the communication table, which differs
\* from the overall table in the band of every threshold (scores of 30 and
\* more), and for an unknown metric_type it returns the same band as for
\* "overall".
C21_TablePerMetricType ==
    fnOut # <<>> =>
        /\ fnIn.metric_type = "technical"
              => fnOut[1] = calculate_percentile(impl, fnIn.score, "overall")
        /\ (fnIn.metric_type = "communication" /\ fnIn.score >= 30)
              => fnOut[1] # calculate_percentile(impl, fnIn.score, "overall")

----------------------------------------------------------------------------
(* The pace computed by validate_and_normalize_metrics                     *)

MaxWords == 12
MaxSeconds == 10

\* Metrics with a word count and a positive duration and no words_per_minute
PaceInputs ==
    {PyDict("voiceMetrics" :> PyDict("word_count" :> PyInt(word_count)
                                     @@ "speaking_duration_seconds" :> PyInt(duration))) :
        word_count \in 1..MaxWords, duration \in 1..MaxSeconds}

InitPace ==
    /\ IdleAI
    /\ EmptyDb
    /\ impl \in Impls
    /\ fnIn \in [fluency_metrics : PaceInputs, user_transcript : {T_THREE}]
    /\ fnOut = <<>>
    /\ IdleReq /\ IdleProv

SpecPace == InitPace /\ [][NextNorm]_vars

\* word_count / duration * 60 of the call, exactly
ExactPace ==
    LET voice == fnIn.fluency_metrics.d["voiceMetrics"].d
    IN RMul(RDiv(voice["word_count"].n, voice["speaking_duration_seconds"].n), R(60, 1))

\* C22: when speaking_duration_seconds is present and positive and
\* words_per_minute is missing, validate_and_normalize_metrics sets
\* words_per_minute to word_count / duration * 60 rounded to the nearest
\* integer (an integer at most one half away from the exact quotient), for
\* every word count and duration.
C22_PaceRounded ==
    fnOut # <<>> =>
        /\ fnOut[1].ok
        /\ LET wpm == fnOut[1].v.d["voiceMetrics"].d["words_per_minute"].n
           IN /\ wpm[2] = 1
              /\ RLe(RAbs(RSub(wpm, ExactPace)), R(1, 2))

----------------------------------------------------------------------------
(* Client voice metrics from submit_response to the report                 *)

\* Client metrics that carry words_per_minute, word_count and filler counts
FlowMetrics ==
    {PyDict("fluency_score" :> PyNum(4, 5)
            @@ "voiceMetrics" :> PyDict("words_per_minute" :> PyInt(w)
                                        @@ "word_count" :> PyInt(n)
                                        @@ "filler_words" :> PyDict("um" :> PyInt(f)))) :
        w \in {110, 130}, n \in {12, 40}, f \in {1, 3}}

InitFlow ==
    /\ IdleAI
    /\ impl \in Impls
    /\ InitDb
    /\ last = [op |-> "none"]
    /\ IdleFn
    /\ IdleReq /\ IdleProv

NextFlow ==
    \/ \E sid \in SessionIds, question_id \in QuestionIds, fluency_metrics_raw \in FlowMetrics :
         SubmitResponse(sid, question_id, T_PLAIN, fluency_metrics_raw)
    \/ \E sid \in SessionIds : GetResult(sid)

SpecFlow == InitFlow /\ [][NextFlow]_vars

\* The voice metrics submitted with an answer, as stored with it
SubmittedVoice(resp) == resp.body_language_metadata.voice_metrics.d

\* C23: the voice metrics of a submitted answer reach the aggregator: after
\* submit_response stored an answer whose client metrics carry
\* words_per_minute W, word_count N and filler counts F,
\* generate_final_report for that session reads exactly those values for
\* that answer, not defaults of 0.
C23_MetricsReachAggregator ==
    Reported =>
        \A i \in 1..Len(SessionResponses(last.session)) :
           LET resp == SessionResponses(last.session)[i]
           IN /\ RespWpm(resp) = SubmittedVoice(resp)["words_per_minute"].n
              /\ RespWords(resp) = SubmittedVoice(resp)["word_count"].n
              /\ RespFillers(resp) = SumValues(SubmittedVoice(resp)["filler_words"].d)

----------------------------------------------------------------------------
(* The race wrappers and their credentials: call_gemini_with_backoff and   *)
(* _call_openrouter_wrapper                                                *)

\* An exception whose message holds "429" (or "ResourceExhausted")
RATE_LIMIT == "429"
\* The marker _try_openrouter_models returns to ask for the fallback client
RATE_LIMIT_HIT == "RATE_LIMIT_HIT"

\* retries=3 of the first call, retries=2 of the call with the fallback key
PRIMARY_RETRIES == 3
FALLBACK_RETRIES == 2
\* The models _try_openrouter_models tries in turn
OPENROUTER_MODELS == 3

\* One generate_content call, then response.text
GeminiOutcomes == {TextOf("Gemini"), Empty, RATE_LIMIT, EXC}
\* One chat.completions.create call, then the content of its first choice
OpenRouterOutcomes == {TextOf("OpenRouter"), Empty, None, RATE_LIMIT, EXC}

\* Every error is retried
RetryableAny(outcome) == outcome \in {RATE_LIMIT, EXC}

\* if "429" in str(e) or "ResourceExhausted" in str(e)
Retryable(outcome) == outcome = RATE_LIMIT

\* The call of provider fn as it starts; has_fallback: a fallback key (a
\* fallback client) is configured
StartProv(fn, has_fallback) == [fn |-> fn, has_fallback |-> has_fallback, key |-> "primary", i |-> 1, retries |-> PRIMARY_RETRIES, log |-> <<>>, ret |-> Unset]

InitProv ==
    /\ cfg \in SUBSET RaceProviders
    /\ StartAI
    /\ IdleEval
    /\ IdleFn
    /\ IdleReq
    /\ prov \in {StartProv(fn, has_fallback) : fn \in RaceProviders, has_fallback \in BOOLEAN}

\* The call has not returned
ProvRunning == prov.ret = Unset

\* `if not HAS_GEMINI: return None`, `if HAS_OPENROUTER and OPENROUTER_CLIENT`
NotConfigured ==
    /\ ProvRunning
    /\ ~HAS(prov.fn)
    /\ prov' = [prov EXCEPT !.ret = None]
    /\ UNCHANGED <<aiVars, evVars, fnVars, rqVars>>

\* The state after a rate-limited attempt of call_gemini_with_backoff: the
\* next round of the loop, or after the last round the call with the
\* fallback key, or None
AfterRateLimit(p) ==
    IF p.i < p.retries THEN [p EXCEPT !.i = p.i + 1]
    ELSE IF p.key = "primary" /\ p.has_fallback
         THEN [p EXCEPT !.key = "fallback", !.retries = FALLBACK_RETRIES, !.i = 1]
         ELSE [p EXCEPT !.ret = None]

\* One round of the loop of call_gemini_with_backoff
GeminiAttempt ==
    /\ ProvRunning
    /\ prov.fn = "Gemini"
    /\ HAS("Gemini")
    /\ \E outcome \in GeminiOutcomes :
         \E p \in {[prov EXCEPT !.log = Append(prov.log, [key |-> prov.key, outcome |-> outcome])]} :
            prov' = IF outcome \notin {RATE_LIMIT, EXC} THEN [p EXCEPT !.ret = outcome]
                    ELSE IF Retryable(outcome) THEN AfterRateLimit(p)
                    ELSE [p EXCEPT !.ret = None]
    /\ UNCHANGED <<aiVars, evVars, fnVars, rqVars>>

\* What _call_openrouter_wrapper returns for the result of its last
\* _try_openrouter_models call
WrapperResult(result) == IF Truthy(result) /\ result # RATE_LIMIT_HIT THEN result ELSE None

\* The state after _try_openrouter_models returned result
AfterTry(p, result) ==
    IF p.key = "primary" /\ result = RATE_LIMIT_HIT /\ p.has_fallback
    THEN [p EXCEPT !.key = "fallback", !.i = 1]
    ELSE [p EXCEPT !.ret = WrapperResult(result)]

\* One model of _try_openrouter_models, with what follows it
OpenRouterAttempt ==
    /\ ProvRunning
    /\ prov.fn = "OpenRouter"
    /\ HAS("OpenRouter")
    /\ \E outcome \in OpenRouterOutcomes :
         \E p \in {[prov EXCEPT !.log = Append(prov.log, [key |-> prov.key, outcome |-> outcome])]} :
            prov' = IF outcome \notin {RATE_LIMIT, EXC} THEN AfterTry(p, outcome)
                    ELSE IF p.i = OPENROUTER_MODELS THEN AfterTry(p, None)
                    ELSE IF outcome = RATE_LIMIT /\ p.key = "primary" THEN AfterTry(p, RATE_LIMIT_HIT)
                    ELSE [p EXCEPT !.i = p.i + 1]
    /\ UNCHANGED <<aiVars, evVars, fnVars, rqVars>>

NextProv == NotConfigured \/ GeminiAttempt \/ OpenRouterAttempt

SpecProv == InitProv /\ [][NextProv]_vars

\* The attempts made with one credential
AttemptsWith(k) == SelectSeq(prov.log, LAMBDA a : a.key = k)

\* C24: call_gemini_with_backoff retries only rate-limit errors and always
\* terminates within a fixed number of attempts: a non-rate-limit error on
\* any attempt ends the call with None at once, with no further attempt
\* under either credential, and the attempts total at most 3 with the
\* primary key plus at most 2 with the fallback key.
C24_BoundedRetries ==
    prov.fn = "Gemini" =>
        /\ Len(AttemptsWith("primary")) <= 3
        /\ Len(AttemptsWith("fallback")) <= 2
        /\ \A n \in 1..Len(prov.log) :
              /\ n < Len(prov.log) => prov.log[n].outcome = RATE_LIMIT
              /\ prov.log[n].outcome = EXC => prov.ret = None
        /\ (~ProvRunning /\ prov.ret # None) => prov.log[Len(prov.log)].outcome = prov.ret

\* Three rate limits with the primary key, one with the fallback key, then
\* an error that is no rate limit: the call ended with None after 5 attempts
C24_Witness ==
    /\ prov.fn = "Gemini"
    /\ Len(AttemptsWith("primary")) = 3
    /\ Len(AttemptsWith("fallback")) = 2
    /\ prov.log[5].outcome = EXC
    /\ prov.ret = None


\* The call made an attempt with credential k
Tried(k) == AttemptsWith(k) # <<>>

\* The attempts with the primary credential ended in a rate limit
PrimaryEndedRateLimited == Tried("primary") /\ AttemptsWith("primary")[Len(AttemptsWith("primary"))].outcome = RATE_LIMIT

\* C25: for Gemini and for OpenRouter alike, the secondary credential is
\* attempted only after the primary credential was rate-limited, and
\* whenever a secondary credential is configured and the attempts with the
\* primary credential ended in a rate limit, the provider yields no result
\* only after the secondary credential was tried.
C25_SecondaryBeforeExhausted ==
    /\ Tried("fallback") => \E n \in 1..Len(prov.log) : prov.log[n].key = "primary" /\ prov.log[n].outcome = RATE_LIMIT
    /\ (prov.has_fallback /\ PrimaryEndedRateLimited /\ prov.ret = None) => Tried("fallback")


----------------------------------------------------------------------------
(* C26: the estimate of the duration                                       *)

\* The call got a voiceMetrics mapping without speaking_duration_seconds
\* and returned
EstimatedDuration ==
    /\ fnOut # <<>>
    /\ fnOut[1].ok
    /\ IsDict(fnIn.fluency_metrics)
    /\ "voiceMetrics" \in DOMAIN fnIn.fluency_metrics.d
    /\ IsDict(fnIn.fluency_metrics.d["voiceMetrics"])
    /\ "speaking_duration_seconds" \notin DOMAIN fnIn.fluency_metrics.d["voiceMetrics"].d

VoiceIn == fnIn.fluency_metrics.d["voiceMetrics"].d
VoiceOut == fnOut[1].v.d["voiceMetrics"].d

\* C26: when speaking_duration_seconds is absent,
\* validate_and_normalize_metrics back-fills speaking_duration_seconds =
\* word_count / 2 and defaults words_per_minute to 120 only if
\* words_per_minute was missing; a words_per_minute the client supplied is
\* kept and speaking_duration_seconds is not back-filled.
C26_BackfillOnlyWithoutPace ==
    EstimatedDuration =>
        IF "words_per_minute" \in DOMAIN VoiceIn
        THEN /\ VoiceOut["words_per_minute"] = VoiceIn["words_per_minute"]
             /\ "speaking_duration_seconds" \notin DOMAIN VoiceOut
        ELSE /\ VoiceOut["words_per_minute"] = PyInt(120)
             /\ VoiceOut["speaking_duration_seconds"] = HalfWordCount(VoiceOut)


----------------------------------------------------------------------------
(* C27: the answers of one question                                        *)

\* The stored answers of question question_id
AnswersOf(question_id) == {n \in 1..Len(responses) : responses[n].question = question_id}

\* C27: after any sequence of submit_response calls on a session, repeated
\* submissions for one question_id included, every question of the session
\* has at most one answer record.
C27_OneAnswerPerQuestion == \A question_id \in QuestionIds : Cardinality(AnswersOf(question_id)) <= 1


----------------------------------------------------------------------------
(* start_interview, by two requests at once                                *)

\* The session the requests start
START_SESSION == "s1"

\* The most questions one generate_questions call leaves after the
\* deduplication
MaxGenerated == 2

\* The primary keys Question.objects.create draws, in the order drawn
FreshIds == <<"k1", "k2", "k3", "k4", "k5", "k6", "k7", "k8">>

\* unique_questions: its elements in turn
GeneratedQuestions == [i \in 1..Len(FreshIds) |-> IF i % 2 = 1 THEN [text |-> Q1_TEXT, category |-> "Technical"] ELSE [text |-> Q2_TEXT, category |-> "Behavioral"]]

\* A request holds the row lock of select_for_update
LockHeld == \E p \in Requests : req[p].at = "locked"

InitStart ==
    /\ IdleAI
    /\ impl \in Impls
    /\ sessions = [sid \in SessionIds |-> NewSession]
    /\ questions = <<>>
    /\ responses = <<>>
    /\ last = [op |-> "none"]
    /\ IdleFn
    /\ req = [p \in Requests |-> [at |-> "start"]]
    /\ IdleProv

\* transaction.atomic() and select_for_update().get(pk=pk), then the test
\* of the status: the existing questions are returned, or the request goes
\* on to generate with the row locked
StartLock(p) ==
    /\ req[p].at = "start"
    /\ ~LockHeld
    /\ req' = [req EXCEPT ![p] =
                 IF sessions[START_SESSION].status = "Started" /\ SessionQuestions(START_SESSION) # {}
                 THEN [at |-> "done", status |-> 200, found |-> TRUE, created |-> {}, returned |-> SessionQuestions(START_SESSION)]
                 ELSE [at |-> "locked"]]
    /\ UNCHANGED <<aiVars, evVars, fnVars, pvVars>>

\* The rows `for idx, q_data in enumerate(unique_questions)` creates for n
\* questions, with order = idx + 1
CreatedQuestions(n) == [k \in {FreshIds[Cardinality(DOMAIN questions) + i] : i \in 1..n} |-> CHOOSE q \in {[session |-> START_SESSION, text |-> GeneratedQuestions[i].text, category |-> GeneratedQuestions[i].category, order |-> i] : i \in 1..n} : FreshIds[Cardinality(DOMAIN questions) + q.order] = k]

\* generate_questions, the creation of the questions, status = 'Started'
\* and the commit that ends the atomic block; an exception rolls the
\* transaction back and the handler answers 500
StartCommit(p) ==
    /\ req[p].at = "locked"
    /\ \/ \E n \in 0..MaxGenerated :
            \E created \in {CreatedQuestions(n)} :
              /\ questions' = created @@ questions
              /\ sessions' = [sessions EXCEPT ![START_SESSION].status = "Started"]
              /\ req' = [req EXCEPT ![p] = [at |-> "done", status |-> 200, found |-> FALSE, created |-> DOMAIN created, returned |-> DOMAIN created]]
       \/ /\ req' = [req EXCEPT ![p] = [at |-> "done", status |-> 500, found |-> FALSE, created |-> {}, returned |-> {}]]
          /\ UNCHANGED <<sessions, questions>>
    /\ UNCHANGED <<impl, responses, last, aiVars, fnVars, pvVars>>

NextStart ==
    \/ \E p \in Requests : StartLock(p)
    \/ \E p \in Requests : StartCommit(p)
    \/ \E question_id \in DOMAIN questions : SubmitResponse(START_SESSION, question_id, T_PLAIN, PyStr("{}"))
    \/ ~LockHeld /\ GetResult(START_SESSION)

SpecStart == InitStart /\ [][NextStart]_vars

\* No two questions of session sid have the same order value
DistinctOrders(sid) == \A k1, k2 \in SessionQuestions(sid) : questions[k1].order = questions[k2].order => k1 = k2

\* C28: for every interleaving of concurrent or repeated start_interview
\* requests on one session the question set is generated and stored only
\* once: the session never holds two questions with the same order value,
\* and a request that finds the session already started with questions
\* returns the existing questions without creating any.
C28_QuestionsStoredOnce ==
    /\ DistinctOrders(START_SESSION)
    /\ \A p \in Requests : (req[p].at = "done" /\ req[p].found) => (req[p].created = {} /\ req[p].returned # {})


----------------------------------------------------------------------------
(* C29: the trend reported with a stored answer                            *)

\* The trend of composite newest against composite previous
TrendOf(newest, previous) ==
    IF ~RLe(newest, RAdd(previous, R(15, 1))) THEN "improving"
    ELSE IF ~RLe(RSub(previous, R(15, 1)), newest) THEN "struggling"
    ELSE "consistent"

\* C29: the performance trend that submit_response reports compares the
\* newest answer of the session with the one before it: 'improving' exactly
\* when the composite of the most recently stored answer exceeds that of
\* the previous answer by more than 15, 'struggling' exactly when it is
\* lower by more than 15, 'consistent' otherwise, and 'new' when the
\* session has fewer than 2 answers.
C29_TrendNewestAgainstPrevious ==
    (last.op = "submit_response" /\ last.status = 200) =>
        LET rs == SessionResponses(last.session)
        IN last.performance_trend =
              IF Len(rs) < 2 THEN "new"
              ELSE TrendOf(Composite(rs[Len(rs)]), Composite(rs[Len(rs) - 1]))


----------------------------------------------------------------------------
(* C30: what ends the chain of call_ai                                     *)

\* The backends call_ai has invoked or submitted to the race
AttemptedBackends == {calls[n] : n \in 1..Len(calls)} \cup {t \in RaceProviders : task[t] # "absent"}

\* C30: call_ai returns an absent or empty result only after every
\* configured backend has been attempted: an empty or null reply of one
\* configured backend never ends the chain while a later configured backend
\* is still untried.
C30_EmptyOnlyAfterAll == (pc = "done" /\ ret \in {None, Empty}) => cfg \subseteq AttemptedBackends

====
